---- MODULE Spec2Model ----
(***************************************************************************)
(* The audio decode-and-feature-extraction engine of audiolab-server:      *)
(* AudioLoader (app/lib/audio/audio_loader.py) and SampleAnalyzer           *)
(* (app/lib/audio/sample_analysis.py).                                      *)
(*                                                                         *)
(* One call runs at a time; pc is the position inside the running method.  *)
(* The decode backends (librosa, pydub) are the environment: each call of  *)
(* one either raises or returns what the file holds, chosen by \E.         *)
(* Numbers that are floats in the program are integers in thousandths,     *)
(* durations are milliseconds, amplitudes are ten-thousandths.             *)
(***************************************************************************)
EXTENDS Integers, Sequences, FiniteSets, TLC

VARIABLES
    LIBROSA_AVAILABLE,   \* audio_loader.py module flag: librosa imported
    PYDUB_AVAILABLE,     \* audio_loader.py module flag: pydub imported
    target_sample_rate,  \* AudioLoader.target_sample_rate
    supported_formats,   \* AudioLoader.supported_formats
    op,                  \* the method the caller invoked
    pc,                  \* position inside the running call
    file,                \* the file the call's path names
    calls,               \* history: backends / helpers invoked by this call, in order
    info,                \* get_audio_info's local dict
    validation,          \* validate_audio_file's local dict
    features,            \* analyze_sample's local dict
    failed,              \* history: feature computations that raised in this call
    inflight,            \* exception travelling inside validate_audio_file's outer try
    loaded,              \* the (audio, sr) tuple load_audio returned to its caller
    loaderExc,           \* history: what load_audio raised during this call
    ret,                 \* value returned to the caller
    exc,                 \* exception that reached the caller
    arg_category,        \* the category argument of _extract_tags / _determine_genre
    measured,            \* what the backend gave the running function: librosa's
                         \* measurements of a waveform, or pydub's segment
    parked,              \* the locals of a second call, while the first one runs
    users,               \* table users: the rows
    revoked_tokens,      \* table revoked_tokens: the jti of each row
    issued,              \* history: the access tokens created so far
    now,                 \* the clock
    response,            \* the response to the last HTTP request
    logged_out,          \* history: the tokens for which /auth/logout answered 200
    tracks,              \* table tracks: the rows
    samples,             \* table samples: the rows
    generated_audio,     \* table generated_audio: the rows
    disk                 \* the paths of the files in the upload directories

vars == <<LIBROSA_AVAILABLE, PYDUB_AVAILABLE, target_sample_rate, supported_formats,
          op, pc, file, calls, info, validation, features, failed,
          inflight, loaded, loaderExc, ret, exc, arg_category, measured, parked,
          users, revoked_tokens, issued, now, response, logged_out,
          tracks, samples, generated_audio, disk>>

config == <<LIBROSA_AVAILABLE, PYDUB_AVAILABLE, target_sample_rate, supported_formats>>

\* The database and what the HTTP clients have seen.
api == <<users, revoked_tokens, issued, now, response, logged_out,
         tracks, samples, generated_audio, disk>>

\* What no step of load_audio, get_audio_info, validate_audio_file or
\* analyze_sample reads or writes.
elsewhere == <<arg_category, measured, parked, api>>

----------------------------------------------------------------------------
(* Bounds                                                                  *)

\* Longest file of the file table, in seconds of audio.
MaxSeconds == 1

----------------------------------------------------------------------------
(* Strings as character sequences: str.lower and pathlib's suffix           *)

UpperCase == <<"A","B","C","D","E","F","G","H","I","J","K","L","M",
               "N","O","P","Q","R","S","T","U","V","W","X","Y","Z">>
LowerCase == <<"a","b","c","d","e","f","g","h","i","j","k","l","m",
               "n","o","p","q","r","s","t","u","v","w","x","y","z">>

LowerChar(c) ==
    IF \E i \in 1..Len(UpperCase) : UpperCase[i] = c
    THEN LowerCase[CHOOSE i \in 1..Len(UpperCase) : UpperCase[i] = c]
    ELSE c

\* str.lower()
Lower(s) == [i \in 1..Len(s) |-> LowerChar(s[i])]

\* pathlib.PurePath.suffix of a final path component: the text from the last
\* dot on, empty when there is no dot, when the name starts with its only dot
\* or when the name ends with the dot.
Suffix(name) ==
    LET dots == {i \in 1..Len(name) : name[i] = "."}
    IN  IF dots = {} THEN <<>>
        ELSE LET i == CHOOSE d \in dots : \A e \in dots : e <= d
             IN  IF i > 1 /\ i < Len(name) THEN SubSeq(name, i, Len(name)) ELSE <<>>

InList(x, list) == \E i \in 1..Len(list) : list[i] = x

----------------------------------------------------------------------------
(* Values                                                                  *)

None == [tag |-> "none", v |-> 0]
Num(x) == [tag |-> "num", v |-> x]
NaN == [tag |-> "nan", v |-> 0]
IsNone(x) == x.tag = "none"

NoExc == [type |-> "none", msg |-> ""]
Exc(t, m) == [type |-> t, msg |-> m]

NoValue == [kind |-> "nothing"]

\* A request without an Authorization header.
NoHeader == [kind |-> "none"]

\* No HTTP request has been answered yet.
NoResponse == [endpoint |-> "", token |-> NoHeader, status |-> 0, detail |-> ""]

----------------------------------------------------------------------------
(* The files of the environment                                            *)

MkFile(name, exists, size, sr, ch, sw, frames, sig) ==
    [name |-> name, exists |-> exists, size |-> size, native_sr |-> sr,
     channels |-> ch, sample_width |-> sw, frames |-> frames, sig |-> sig]

MB == 1048576

Files ==
    { MkFile(<<"g",".","w","a","v">>, FALSE, 0, 44100, 2, 2, 0, "silence"),
      MkFile(<<"e",".","w","a","v">>, TRUE, 0, 44100, 2, 2, 0, "silence"),
      MkFile(<<"z",".","t","x","t">>, TRUE, 0, 44100, 2, 2, 0, "silence"),
      MkFile(<<"a",".","W","A","V">>, TRUE, 131072, 44100, 2, 2, 44100 * MaxSeconds, "tone"),
      MkFile(<<"b",".","m","p","3">>, TRUE, 200 * MB + 1, 22050, 1, 2, 500, "clicks"),
      MkFile(<<"c",".","o","g","g">>, TRUE, MB, 8000, 1, 1, 8000 * MaxSeconds, "silence"),
      MkFile(<<"h",".","F","l","a","c">>, TRUE, 200 * MB, 22050, 2, 4, 22050 * MaxSeconds, "noise"),
      MkFile(<<"d",".","t","x","t">>, TRUE, 131072, 44100, 2, 2, 44100 * MaxSeconds, "tone"),
      MkFile(<<"f",".","A","I","F">>, TRUE, 200 * MB + 1, 22050, 1, 2, 500, "clicks"),
      MkFile(<<"n","o","e","x","t">>, TRUE, MB, 22050, 1, 2, 500, "noise"),
      MkFile(<<".","w","a","v">>, TRUE, MB, 22050, 1, 2, 500, "noise") }

NoFile == MkFile(<<>>, FALSE, 0, 0, 0, 0, 0, "silence")

\* os.path.exists
Exists(f) == f.exists

\* os.path.getsize: the size, or an OSError (a missing file, or one that cannot
\* be stat'ed any more); ok is the environment's answer for an existing file.
GetSize(f, ok) ==
    IF f.exists /\ ok THEN [raised |-> FALSE, size |-> f.size, exc |-> NoExc]
    ELSE [raised |-> TRUE, size |-> 0, exc |-> Exc("OSError", "No such file or directory")]

----------------------------------------------------------------------------
(* The decode backends                                                     *)

RECURSIVE GCD(_, _)
GCD(a, b) == IF b = 0 THEN a ELSE GCD(b, a % b)

\* Number of samples after resampling n samples from rate orig to rate target:
\* ceil(n * target / orig), as librosa.resample computes it.
ResampledLen(n, orig, target) ==
    IF n = 0 \/ orig = target THEN n
    ELSE LET g == GCD(orig, target)
             num == n * (target \div g)
             den == orig \div g
         IN  (num + den - 1) \div den

Outcomes == {"raise", "empty", "decoded"}

NoAudio == [len |-> 0, peak |-> 0]

\* Peak absolute amplitude of the signal a file holds, in ten-thousandths of
\* full scale (0.001 is 10).
Peak(sig) ==
    CASE sig = "silence" -> 0
      [] sig = "tone" -> 5000
      [] sig = "clicks" -> 9
      [] OTHER -> 10

\* librosa.load(path, sr=sr, mono=True): sr = 0 stands for sr=None, which
\* keeps the file's native rate.
LibrosaLoad(f, sr, o) ==
    LET rate == IF sr = 0 THEN f.native_sr ELSE sr
        n == IF o = "empty" THEN 0 ELSE ResampledLen(f.frames, f.native_sr, rate)
    IN  [raised |-> o = "raise",
         audio |-> IF o = "raise" THEN NoAudio ELSE [len |-> n, peak |-> Peak(f.sig)],
         sr |-> rate]

\* librosa.resample(audio, orig_sr, target_sr)
LibrosaResample(audio, orig, target) ==
    [audio EXCEPT !.len = ResampledLen(audio.len, orig, target)]

\* AudioSegment.from_file(path): the segment with the file's own frame rate,
\* channel count and sample width, or an exception.
PydubFromFile(f, o) ==
    [raised |-> o = "raise",
     frame_rate |-> f.native_sr,
     channels |-> f.channels,
     sample_width |-> f.sample_width,
     frames |-> IF o = "empty" THEN 0 ELSE f.frames,
     peak |-> Peak(f.sig)]

\* AudioSegment.set_channels(1)
SetChannels(seg, n) == [seg EXCEPT !.channels = n]

\* AudioSegment.set_frame_rate(rate)
SetFrameRate(seg, rate) ==
    [seg EXCEPT !.frames = ResampledLen(seg.frames, seg.frame_rate, rate),
                !.frame_rate = rate]

\* AudioLoader._load_with_pydub
LoadWithPydub(f, o, target) ==
    LET seg0 == PydubFromFile(f, o)
        seg1 == IF seg0.channels > 1 THEN SetChannels(seg0, 1) ELSE seg0
        seg2 == IF seg1.frame_rate # target THEN SetFrameRate(seg1, target) ELSE seg1
    IN  [raised |-> seg0.raised,
         audio |-> IF seg0.raised THEN NoAudio
                   ELSE [len |-> seg2.frames * seg2.channels, peak |-> seg2.peak],
         sr |-> target]

----------------------------------------------------------------------------
(* AudioLoader.load_audio                                                  *)

\* One entry of the call history; len and sr are what a decode strategy gave.
LogEntry(fn, out) == [fn |-> fn, outcome |-> out, len |-> 0, sr |-> 0]
StrategyEntry(fn, r) ==
    [fn |-> fn,
     outcome |-> IF r.raised THEN "raised" ELSE IF r.audio.len > 0 THEN "ok" ELSE "empty",
     len |-> r.audio.len, sr |-> IF r.raised THEN 0 ELSE r.sr]

\* load_audio returns (audio, sr): control goes back to the caller.
LoadReturns(audio, sr) ==
    /\ loaded' = [audio |-> audio, sr |-> sr]
    /\ loaderExc' = NoExc
    /\ IF op = "load_audio"
       THEN /\ pc' = "done"
            /\ ret' = [kind |-> "audio", audio |-> audio, sr |-> sr]
            /\ exc' = NoExc
       ELSE /\ pc' = IF op = "validate_audio_file" THEN "val_loaded" ELSE "an_loaded"
            /\ UNCHANGED <<ret, exc>>

\* load_audio raises e: control goes to the caller's handler.
LoadRaises(e) ==
    /\ loaderExc' = e
    /\ UNCHANGED loaded
    /\ IF op = "load_audio"
       THEN /\ pc' = "done"
            /\ exc' = e
            /\ UNCHANGED ret
       ELSE /\ pc' = IF op = "validate_audio_file" THEN "val_load_failed" ELSE "an_load_failed"
            /\ UNCHANGED <<ret, exc>>

\* Mutant: a name without a suffix passes the gate.
IsSupportedOrNoSuffix(f) ==
    Suffix(f.name) = <<>> \/ InList(Lower(Suffix(f.name)), supported_formats)

\* The format gate of load_audio and of validate_audio_file.
IsSupported(f) == InList(Lower(Suffix(f.name)), supported_formats)

\* lines 46-52: the existence check and the format gate.
LoadChecks ==
    /\ pc = "load_checks"
    /\ IF ~Exists(file)
       THEN LoadRaises(Exc("FileNotFoundError", "Audio file not found"))
       ELSE IF ~IsSupported(file)
       THEN LoadRaises(Exc("ValueError", "Unsupported audio format"))
       ELSE /\ pc' = "load_librosa"
            /\ UNCHANGED <<loaded, loaderExc, ret, exc>>
    /\ UNCHANGED <<elsewhere, config, op, file, calls, info, validation, features, failed, inflight>>

\* Mutant: the emptiness check after a strategy is missing.
TryStrategyNoEmptyCheck(available, fn, r, next) ==
    IF ~available
    THEN /\ pc' = next
         /\ UNCHANGED <<calls, loaded, loaderExc, ret, exc>>
    ELSE /\ calls' = Append(calls, StrategyEntry(fn, r))
         /\ IF ~r.raised
            THEN LoadReturns(r.audio, r.sr)
            ELSE /\ pc' = next
                 /\ UNCHANGED <<loaded, loaderExc, ret, exc>>

\* Mutant: a strategy's exception is not caught.
TryStrategyPropagates(available, fn, r, next) ==
    IF ~available
    THEN /\ pc' = next
         /\ UNCHANGED <<calls, loaded, loaderExc, ret, exc>>
    ELSE /\ calls' = Append(calls, StrategyEntry(fn, r))
         /\ IF r.raised
            THEN LoadRaises(Exc("Exception", "decode backend error"))
            ELSE IF r.audio.len > 0
            THEN LoadReturns(r.audio, r.sr)
            ELSE /\ pc' = next
                 /\ UNCHANGED <<loaded, loaderExc, ret, exc>>

\* One strategy of the chain: skipped when its backend is missing, else called
\* once; its result is returned when non-empty, and otherwise (an exception, an
\* empty waveform) the chain moves on to the label next.
TryStrategy(available, fn, r, next) ==
    IF ~available
    THEN /\ pc' = next
         /\ UNCHANGED <<calls, loaded, loaderExc, ret, exc>>
    ELSE /\ calls' = Append(calls, StrategyEntry(fn, r))
         /\ IF ~r.raised /\ r.audio.len > 0
            THEN LoadReturns(r.audio, r.sr)
            ELSE /\ pc' = next
                 /\ UNCHANGED <<loaded, loaderExc, ret, exc>>

\* lines 54-64: librosa at the target rate.
LoadLibrosa ==
    /\ pc = "load_librosa"
    /\ \E o \in Outcomes :
          TryStrategy(LIBROSA_AVAILABLE, "librosa.load",
                      LibrosaLoad(file, target_sample_rate, o), "load_pydub")
    /\ UNCHANGED <<elsewhere, config, op, file, info, validation, features, failed, inflight>>

\* lines 66-73: pydub.
LoadPydub ==
    /\ pc = "load_pydub"
    /\ \E o \in Outcomes :
          TryStrategy(PYDUB_AVAILABLE, "_load_with_pydub",
                      LoadWithPydub(file, o, target_sample_rate), "load_librosa_native")
    /\ UNCHANGED <<elsewhere, config, op, file, info, validation, features, failed, inflight>>

\* Mutant: the samples are resampled but sr keeps the native rate.
LibrosaNativeKeepsRate(f, o, target) ==
    LET r == LibrosaLoad(f, 0, o)
    IN  IF r.raised \/ r.sr = target THEN r
        ELSE [r EXCEPT !.audio = LibrosaResample(r.audio, r.sr, target)]

\* lines 81-85: librosa at the native rate, then a manual resample.
LibrosaNativeResampled(f, o, target) ==
    LET r == LibrosaLoad(f, 0, o)
    IN  IF r.raised \/ r.sr = target THEN r
        ELSE [r EXCEPT !.audio = LibrosaResample(r.audio, r.sr, target), !.sr = target]

\* lines 75-90: the second librosa attempt.
LoadLibrosaNative ==
    /\ pc = "load_librosa_native"
    /\ \E o \in Outcomes :
          TryStrategy(LIBROSA_AVAILABLE, "librosa.load(sr=None)",
                      LibrosaNativeResampled(file, o, target_sample_rate), "load_exhausted")
    /\ UNCHANGED <<elsewhere, config, op, file, info, validation, features, failed, inflight>>

\* line 92: nothing yielded a waveform.
LoadExhausted ==
    /\ pc = "load_exhausted"
    /\ LoadRaises(Exc("ValueError", "Could not load audio file with any available method"))
    /\ UNCHANGED <<elsewhere, config, op, file, calls, info, validation, features, failed, inflight>>

----------------------------------------------------------------------------
(* AudioLoader.get_audio_info                                              *)

\* The dict {}.
EmptyDict == [k \in {} |-> None]

\* round(size / (1024 * 1024), 2) in hundredths of a megabyte, ties to even.
FileSizeMB(size) ==
    LET unit == MB \div 4
        whole == 25 * (size \div unit)
        part == 25 * (size % unit)
        q == whole + (part \div unit)
        r == part % unit
    IN  IF 2 * r > unit THEN q + 1
        ELSE IF 2 * r = unit THEN q + (q % 2)
        ELSE q

\* lines 129-138: the dict get_audio_info starts from.
InitialInfo(f, size) ==
    [file_path |-> f.name,
     file_size_bytes |-> size,
     file_size_mb |-> FileSizeMB(size),
     extension |-> Lower(Suffix(f.name)),
     duration_sec |-> None,
     sample_rate |-> None,
     channels |-> None,
     bit_depth |-> None]

\* librosa.get_duration(path=...) in milliseconds.
LibrosaGetDuration(f, o) ==
    [raised |-> o = "raise",
     duration |-> IF o = "raise" THEN 0 ELSE (f.frames * 1000) \div f.native_sr]

\* len(audio_segment): pydub's length in whole milliseconds.
PydubLenMs(seg) == (seg.frames * 1000 + seg.frame_rate \div 2) \div seg.frame_rate

\* get_audio_info returns i.
InfoReturns(i) ==
    /\ info' = i
    /\ IF op = "get_audio_info"
       THEN /\ pc' = "done"
            /\ ret' = [kind |-> "info", info |-> i]
            /\ exc' = NoExc
            /\ UNCHANGED validation
       ELSE /\ pc' = "val_format"
            /\ validation' = [validation EXCEPT !.info = i]
            /\ UNCHANGED <<ret, exc>>

\* lines 129-138: os.path.getsize may raise; nothing in get_audio_info catches it.
InfoInit ==
    /\ pc = "info_init"
    /\ \E ok \in BOOLEAN :
          LET s == GetSize(file, ok)
          IN  IF s.raised
              THEN /\ UNCHANGED <<info, ret>>
                   /\ IF op = "get_audio_info"
                      THEN pc' = "done" /\ exc' = s.exc /\ UNCHANGED inflight
                      ELSE pc' = "val_except" /\ inflight' = s.exc /\ UNCHANGED exc
              ELSE /\ info' = InitialInfo(file, s.size)
                   /\ pc' = "info_librosa"
                   /\ UNCHANGED <<ret, exc, inflight>>
    /\ UNCHANGED <<elsewhere, config, op, file, calls, validation, features, failed, loaded, loaderExc>>

\* lines 141-149: the partial decode (first statement of the librosa try block).
InfoLibrosa ==
    /\ pc = "info_librosa"
    /\ IF ~LIBROSA_AVAILABLE
       THEN pc' = "info_pydub" /\ UNCHANGED <<calls, info>>
       ELSE \E o \in Outcomes :
               LET r == LibrosaLoad(file, 0, o)
               IN  /\ calls' = Append(calls, LogEntry("librosa.load(duration=1.0)",
                                                      IF r.raised THEN "raised" ELSE "ok"))
                   /\ IF r.raised
                      THEN pc' = "info_pydub" /\ UNCHANGED info
                      ELSE /\ info' = [info EXCEPT !.sample_rate = Num(r.sr),
                                                   !.channels = Num(1)]
                           /\ pc' = "info_duration"
    /\ UNCHANGED <<elsewhere, config, op, file, validation, features, failed, inflight, loaded,
                   loaderExc, ret, exc>>

\* lines 150-155: the duration probe (second statement of the same try block).
InfoDuration ==
    /\ pc = "info_duration"
    /\ \E o \in {"raise", "decoded"} :
          LET r == LibrosaGetDuration(file, o)
          IN  /\ calls' = Append(calls, LogEntry("librosa.get_duration",
                                                 IF r.raised THEN "raised" ELSE "ok"))
              /\ info' = IF r.raised THEN info
                         ELSE [info EXCEPT !.duration_sec = Num(r.duration)]
    /\ pc' = "info_pydub"
    /\ UNCHANGED <<elsewhere, config, op, file, validation, features, failed, inflight, loaded,
                   loaderExc, ret, exc>>

\* lines 157-168: the pydub fallback, then the return.
InfoPydub ==
    /\ pc = "info_pydub"
    /\ IF PYDUB_AVAILABLE /\ (IsNone(info.duration_sec) \/ IsNone(info.sample_rate))
       THEN \E o \in {"raise", "decoded"} :
               LET seg == PydubFromFile(file, o)
               IN  /\ calls' = Append(calls, LogEntry("AudioSegment.from_file",
                                                      IF seg.raised THEN "raised" ELSE "ok"))
                   /\ InfoReturns(IF seg.raised THEN info
                                  ELSE [info EXCEPT
                                          !.duration_sec = Num(PydubLenMs(seg)),
                                          !.sample_rate = Num(seg.frame_rate),
                                          !.channels = Num(seg.channels),
                                          !.bit_depth = Num(seg.sample_width * 8)])
       ELSE InfoReturns(info) /\ UNCHANGED calls
    /\ UNCHANGED <<elsewhere, config, op, file, features, failed, inflight, loaded, loaderExc>>

----------------------------------------------------------------------------
(* AudioLoader.validate_audio_file                                         *)

\* lines 180-186
InitialValidation ==
    [is_valid |-> FALSE, errors |-> <<>>, warnings |-> <<>>, info |-> EmptyDict,
     loadable |-> FALSE]

\* validate_audio_file returns v.
ValReturns(v) ==
    /\ validation' = v
    /\ pc' = "done"
    /\ ret' = [kind |-> "validation", validation |-> v]
    /\ exc' = NoExc

AddError(v, e) == [v EXCEPT !.errors = Append(@, e)]
AddWarning(v, w) == [v EXCEPT !.warnings = Append(@, w)]

\* lines 188-200: existence and size checks, then the call of get_audio_info.
ValChecks ==
    /\ pc = "val_checks"
    /\ IF ~Exists(file)
       THEN ValReturns(AddError(validation, "File not found")) /\ UNCHANGED <<calls, inflight>>
       ELSE \E ok \in BOOLEAN :
               LET s == GetSize(file, ok)
               IN  IF s.raised
                   THEN /\ pc' = "val_except"
                        /\ inflight' = s.exc
                        /\ UNCHANGED <<validation, calls, ret, exc>>
                   ELSE IF s.size = 0
                   THEN ValReturns(AddError(validation, "File is empty"))
                        /\ UNCHANGED <<calls, inflight>>
                   ELSE /\ calls' = Append(calls, LogEntry("get_audio_info", "called"))
                        /\ pc' = "info_init"
                        /\ UNCHANGED <<validation, inflight, ret, exc>>
    /\ UNCHANGED <<elsewhere, config, op, file, info, features, failed, loaded, loaderExc>>

\* lines 202-214: the size warning, the format check, then the call of load_audio.
ValFormat ==
    /\ pc = "val_format"
    /\ LET v == IF file.size > 200 * 1024 * 1024
                THEN AddWarning(validation, "File is very large (>200MB), analysis may be slow")
                ELSE validation
       IN  IF ~IsSupported(file)
           THEN ValReturns(AddError(v, "Unsupported format"))
           ELSE /\ validation' = v
                /\ pc' = "load_checks"
                /\ UNCHANGED <<ret, exc>>
    /\ UNCHANGED <<elsewhere, config, op, file, calls, info, features, failed, inflight, loaded,
                   loaderExc>>

\* Mutant: a quality check that fails after is_valid was set lands in the
\* handler of line 225.
ValLoadedThenQualityCheckRaises ==
    /\ pc = "val_loaded"
    /\ LET v0 == [validation EXCEPT !.loadable = TRUE, !.is_valid = TRUE]
       IN  IF loaded.audio.peak < 10
           THEN ValReturns(AddError(v0, "Failed to load audio: ValueError"))
           ELSE ValReturns(v0)
    /\ UNCHANGED <<elsewhere, config, op, file, calls, info, features, failed, inflight, loaded,
                   loaderExc>>

\* lines 215-223: load_audio returned.
ValLoaded ==
    /\ pc = "val_loaded"
    /\ LET v0 == [validation EXCEPT !.loadable = TRUE, !.is_valid = TRUE]
           v1 == IF loaded.audio.len < 1000
                 THEN AddWarning(v0, "Audio file is very short") ELSE v0
           v2 == IF loaded.audio.peak < 10
                 THEN AddWarning(v1, "Audio file appears to be very quiet") ELSE v1
       IN  ValReturns(v2)
    /\ UNCHANGED <<elsewhere, config, op, file, calls, info, features, failed, inflight, loaded,
                   loaderExc>>

\* lines 225-226: load_audio raised.
ValLoadFailed ==
    /\ pc = "val_load_failed"
    /\ ValReturns(AddError(validation, "Failed to load audio: " \o loaderExc.msg))
    /\ UNCHANGED <<elsewhere, config, op, file, calls, info, features, failed, inflight, loaded,
                   loaderExc>>

\* Mutant: the outer handler lets the exception through.
ValExceptReraises ==
    /\ pc = "val_except"
    /\ pc' = "done"
    /\ exc' = inflight
    /\ UNCHANGED <<elsewhere, config, op, file, calls, info, validation, features, failed, inflight,
                   loaded, loaderExc, ret>>

\* lines 228-229: the outer handler.
ValExcept ==
    /\ pc = "val_except"
    /\ ValReturns(AddError(validation, "Validation error: " \o inflight.msg))
    /\ UNCHANGED <<elsewhere, config, op, file, calls, info, features, failed, inflight, loaded,
                   loaderExc>>

----------------------------------------------------------------------------
(* What librosa measures on the waveform of each signal                    *)

RECURSIVE ISqrtIn(_, _, _)
ISqrtIn(n, lo, hi) ==
    IF lo >= hi THEN lo
    ELSE LET mid == (lo + hi + 1) \div 2
         IN  IF mid * mid <= n THEN ISqrtIn(n, mid, hi) ELSE ISqrtIn(n, lo, mid - 1)

\* floor(sqrt(n)) for 0 <= n < 2^30
ISqrt(n) == ISqrtIn(n, 0, 32767)

Zeros12 == [i \in 1..12 |-> 0]

\* tempo: BPM; key_index: argmax of the mean chroma; centroid, rolloff: mean in
\* Hz and coefficient of variation; zcr: mean rate; beats: frame indices;
\* harm, perc: sum of |y_harmonic|, |y_percussive|; chroma: mean chroma vector
\* and its standard deviation; rms: mean frame RMS; loudness_db:
\* 20*log10(rms + 1e-10). All in thousandths, beats in frames.
Measure(sig) ==
    CASE sig = "silence" ->
           [tempo |-> 0, key_index |-> 0,
            centroid |-> 0, centroid_cv |-> NaN, rolloff |-> 0, rolloff_cv |-> NaN,
            zcr |-> 0, beats |-> <<>>, harm |-> 0, perc |-> 0,
            chroma |-> Zeros12, chroma_std |-> 0, rms |-> 0, loudness_db |-> -200000]
      [] sig = "tone" ->
           [tempo |-> 99384, key_index |-> 9,
            centroid |-> 440000, centroid_cv |-> Num(10), rolloff |-> 500000,
            rolloff_cv |-> Num(12), zcr |-> 40, beats |-> <<3, 29>>,
            harm |-> 990000, perc |-> 10000,
            chroma |-> [i \in 1..12 |-> IF i = 10 THEN 1000 ELSE 50], chroma_std |-> 263,
            rms |-> 354, loudness_db |-> -9020]
      [] sig = "clicks" ->
           [tempo |-> 120000, key_index |-> 4,
            centroid |-> 3000000, centroid_cv |-> Num(800), rolloff |-> 6000000,
            rolloff_cv |-> Num(500), zcr |-> 200, beats |-> <<5, 27, 48, 70>>,
            harm |-> 100, perc |-> 900,
            chroma |-> [i \in 1..12 |-> 400], chroma_std |-> 0,
            rms |-> 20, loudness_db |-> -33979]
      [] OTHER ->
           [tempo |-> 60093, key_index |-> 11,
            centroid |-> 5000000, centroid_cv |-> Num(100), rolloff |-> 9000000,
            rolloff_cv |-> Num(50), zcr |-> 500, beats |-> <<10>>,
            harm |-> 400, perc |-> 600,
            chroma |-> [i \in 1..12 |-> 600 + i], chroma_std |-> 3,
            rms |-> 100, loudness_db |-> -20000]

----------------------------------------------------------------------------
(* SampleAnalyzer: the six extraction groups                               *)

Str(s) == [tag |-> "str", s |-> s]

\* dict.update
Update(d, new) == new @@ d

\* dict.get
Get(d, key, default) == IF key \in DOMAIN d THEN d[key] ELSE default

Keys == <<"C", "C#", "D", "D#", "E", "F", "F#", "G", "G#", "A", "A#", "B">>

\* The try blocks of the extraction groups, one name per block.
Computations ==
    {"tempo", "key", "centroid", "rolloff", "zcr", "mfcc", "rhythm", "harmonic",
     "rms", "complexity"}

\* lines 76-83
ExtractBasicProperties(y, sr) ==
    [duration_sec |-> Num((y.len * 1000) \div sr),
     sample_rate |-> Num(sr),
     channels |-> Num(1),
     size |-> Num(y.len * 2)]

\* Python truth of a float or None: None and 0.0 are false.
Truthy(x) == ~IsNone(x) /\ ~(x.tag = "num" /\ x.v = 0)

\* Mutant: only None counts as no tempo.
TimeSignatureNoneOnly(tempo_bpm) ==
    IF ~IsNone(tempo_bpm)
    THEN IF tempo_bpm.tag = "num" /\ tempo_bpm.v < 80000 THEN 3
         ELSE IF tempo_bpm.tag = "num" /\ tempo_bpm.v < 120000 THEN 4
         ELSE 6
    ELSE 4

\* lines 105-119
TimeSignature(tempo_bpm) ==
    IF Truthy(tempo_bpm)
    THEN IF tempo_bpm.tag = "num" /\ tempo_bpm.v < 80000 THEN 3
         ELSE IF tempo_bpm.tag = "num" /\ tempo_bpm.v < 120000 THEN 4
         ELSE 6
    ELSE 4

\* lines 85-121; F: the computations that raise.
ExtractMusicalFeatures(m, F) ==
    LET tempo_bpm == IF "tempo" \in F THEN None ELSE Num(m.tempo)
    IN  [tempo_bpm |-> tempo_bpm,
         key_signature |-> IF "key" \in F THEN None ELSE Str(Keys[m.key_index + 1]),
         time_signature |-> Num(TimeSignature(tempo_bpm))]

\* The shape of librosa.feature.mfcc's matrix: 13 rows, one column per hop.
Mfcc(y) == [tag |-> "matrix", rows |-> 13, cols |-> 1 + (y.len \div 512)]

\* lines 123-155
ExtractSpectralFeatures(m, y, F) ==
    [spectral_centroid |-> IF "centroid" \in F THEN None ELSE Num(m.centroid),
     spectral_rolloff |-> IF "rolloff" \in F THEN None ELSE Num(m.rolloff),
     zero_crossing_rate |-> IF "zcr" \in F THEN None ELSE Num(m.zcr),
     mfcc_features |-> IF "mfcc" \in F THEN None ELSE Mfcc(y)]

RECURSIVE SumSeq(_)
SumSeq(s) == IF s = <<>> THEN 0 ELSE Head(s) + SumSeq(Tail(s))

\* np.diff
Diff(s) == [i \in 1..(Len(s) - 1) |-> s[i + 1] - s[i]]

\* np.mean of integers, in thousandths
MeanMilli(s) == (SumSeq(s) * 1000) \div Len(s)

\* np.std of integers, in thousandths
StdMilli(s) ==
    LET mu == MeanMilli(s)
        sq == [i \in 1..Len(s) |-> (s[i] * 1000 - mu) * (s[i] * 1000 - mu)]
    IN  ISqrt(SumSeq(sq) \div Len(s))

\* lines 157-192
ExtractRhythmicFeatures(m, F) ==
    [rhythm_pattern |->
        IF "rhythm" \in F
        THEN [beat_count |-> Num(0), avg_interval |-> None, interval_std |-> None,
              rhythm_regularity |-> Num(0)]
        ELSE IF Len(m.beats) > 1
        THEN LET beat_intervals == Diff(m.beats)
             IN  [beat_count |-> Num(Len(m.beats)),
                  avg_interval |-> Num(MeanMilli(beat_intervals)),
                  interval_std |-> Num(StdMilli(beat_intervals)),
                  rhythm_regularity |->
                      Num(1000 - (StdMilli(beat_intervals) * 1000)
                                     \div MeanMilli(beat_intervals))]
        ELSE [beat_count |-> Num(Len(m.beats)), avg_interval |-> None,
              interval_std |-> None, rhythm_regularity |-> Num(0)]]

\* a / b on numpy floats: 0/0 is nan, no exception.
NpDiv(a, b) == IF b = 0 THEN NaN ELSE Num((a * 1000) \div b)

\* Mutant: the except branch stores nothing.
ExtractHarmonicNoDefault(m, F) ==
    IF "harmonic" \in F THEN EmptyDict
    ELSE [harmonic_content |->
             [harmonic_ratio |-> NpDiv(m.harm, m.harm + m.perc),
              chroma_profile |-> m.chroma,
              harmonic_complexity |-> Num(m.chroma_std)]]

\* lines 194-224
ExtractHarmonicFeatures(m, F) ==
    [harmonic_content |->
        IF "harmonic" \in F
        THEN [harmonic_ratio |-> Num(500), chroma_profile |-> Zeros12,
              harmonic_complexity |-> Num(0)]
        ELSE [harmonic_ratio |-> NpDiv(m.harm, m.harm + m.perc),
              chroma_profile |-> m.chroma,
              harmonic_complexity |-> Num(m.chroma_std)]]

\* a * w for a weight w in thousandths; nan stays nan.
Scale(a, w) == IF a.tag = "num" THEN Num((a.v * w) \div 1000) ELSE a

\* a + b; nan wins.
Add(a, b) == IF a.tag # "num" THEN a ELSE IF b.tag # "num" THEN b ELSE Num(a.v + b.v)

\* Python's min(1.0, x): x only when x < 1.0, so nan gives 1.0.
Min1(x) == IF x.tag = "num" /\ x.v < 1000 THEN x ELSE Num(1000)

\* Python's max(0, x): x only when x > 0, so nan gives 0.
Max0(x) == IF x.tag = "num" /\ x.v > 0 THEN x ELSE Num(0)

\* lines 226-260; when the RMS computation raises, rms stays unbound and the
\* energy block raises too.
ExtractPerceptualFeatures(m, F) ==
    [loudness |-> IF "rms" \in F THEN Num(-60000) ELSE Num(m.loudness_db),
     energy |-> IF "rms" \in F THEN Num(0) ELSE Num(m.rms),
     complexity |->
        IF "complexity" \in F THEN Num(500)
        ELSE Min1(Add(Add(Scale(m.centroid_cv, 500), Scale(m.rolloff_cv, 300)),
                      Scale(Num(m.zcr), 200)))]

----------------------------------------------------------------------------
(* SampleAnalyzer: the classifier                                          *)

\* a > c and a < c on Python floats; comparing None raises TypeError.
CmpRaises(a) == IsNone(a)
GT(a, c) == a.tag = "num" /\ a.v > c
LT(a, c) == a.tag = "num" /\ a.v < c

TypeError == [raised |-> TRUE, value |-> "TypeError"]
Ok(v) == [raised |-> FALSE, value |-> v]

\* Mutant: ambient is decided with the 0.02 of the dark mood.
DetermineCategoryAmbientBelowDark(f) ==
    LET harmonic_ratio ==
            Get(Get(f, "harmonic_content", EmptyDict), "harmonic_ratio", Num(500))
        zero_crossing_rate == Get(f, "zero_crossing_rate", Num(100))
        energy == Get(f, "energy", Num(0))
    IN  IF CmpRaises(harmonic_ratio) THEN TypeError
        ELSE IF GT(harmonic_ratio, 700) THEN Ok("musical")
        ELSE IF CmpRaises(zero_crossing_rate) THEN TypeError
        ELSE IF GT(zero_crossing_rate, 150) THEN Ok("percussion")
        ELSE IF CmpRaises(energy) THEN TypeError
        ELSE IF LT(energy, 20) THEN Ok("ambient")
        ELSE Ok("fx")

\* lines 288-302
DetermineCategory(f) ==
    LET harmonic_ratio ==
            Get(Get(f, "harmonic_content", EmptyDict), "harmonic_ratio", Num(500))
        zero_crossing_rate == Get(f, "zero_crossing_rate", Num(100))
        energy == Get(f, "energy", Num(0))
    IN  IF CmpRaises(harmonic_ratio) THEN TypeError
        ELSE IF GT(harmonic_ratio, 700) THEN Ok("musical")
        ELSE IF CmpRaises(zero_crossing_rate) THEN TypeError
        ELSE IF GT(zero_crossing_rate, 150) THEN Ok("percussion")
        ELSE IF CmpRaises(energy) THEN TypeError
        ELSE IF LT(energy, 10) THEN Ok("ambient")
        ELSE Ok("fx")

CategoryTags(category) ==
    CASE category = "musical" -> <<"tonal", "harmonic">>
      [] category = "percussion" -> <<"rhythmic", "percussive">>
      [] category = "ambient" -> <<"atmospheric", "textural">>
      [] category = "fx" -> <<"effect", "impact">>
      [] OTHER -> <<>>

\* Mutant: the category's tags come first and the energy rule is tested twice.
ExtractTagsFixedFirst(f, category) ==
    LET energy == Get(f, "energy", Num(0))
        t2 == IF GT(energy, 100) THEN <<"loud">>
              ELSE IF LT(energy, 10) THEN <<"quiet">> ELSE <<>>
    IN  IF CmpRaises(energy) THEN TypeError
        ELSE Ok(CategoryTags(category) \o t2 \o t2)

\* lines 304-339
ExtractTags(f, category) ==
    LET spectral_centroid == Get(f, "spectral_centroid", Num(500))
        energy == Get(f, "energy", Num(0))
        complexity == Get(f, "complexity", Num(500))
        t1 == IF GT(spectral_centroid, 700) THEN <<"bright">>
              ELSE IF LT(spectral_centroid, 300) THEN <<"dark">> ELSE <<>>
        t2 == IF GT(energy, 100) THEN <<"loud">>
              ELSE IF LT(energy, 10) THEN <<"quiet">> ELSE <<>>
        t3 == IF GT(complexity, 700) THEN <<"complex">>
              ELSE IF LT(complexity, 300) THEN <<"simple">> ELSE <<>>
    IN  IF CmpRaises(spectral_centroid) \/ CmpRaises(energy) \/ CmpRaises(complexity)
        THEN TypeError
        ELSE Ok(t1 \o t2 \o t3 \o CategoryTags(category))

\* lines 341-356
DetermineMood(f) ==
    LET spectral_centroid == Get(f, "spectral_centroid", Num(500))
        energy == Get(f, "energy", Num(0))
        complexity == Get(f, "complexity", Num(500))
    IN  IF CmpRaises(spectral_centroid) THEN TypeError
        ELSE IF GT(spectral_centroid, 700) /\ CmpRaises(energy) THEN TypeError
        ELSE IF GT(spectral_centroid, 700) /\ GT(energy, 50) THEN Ok("bright")
        ELSE IF LT(spectral_centroid, 300) /\ CmpRaises(energy) THEN TypeError
        ELSE IF LT(spectral_centroid, 300) /\ LT(energy, 20) THEN Ok("dark")
        ELSE IF CmpRaises(energy) THEN TypeError
        ELSE IF GT(energy, 100) THEN Ok("energetic")
        ELSE IF CmpRaises(complexity) THEN TypeError
        ELSE IF GT(complexity, 700) THEN Ok("mysterious")
        ELSE Ok("neutral")

\* a / k for a constant k; nan stays nan.
DivBy(a, k) == IF a.tag = "num" THEN Num(a.v \div k) ELSE a

\* Mutant: the weighted sum is returned without min(1.0, ...).
CalculateIntensityUnclipped(f) ==
    LET energy == Get(f, "energy", Num(0))
        complexity == Get(f, "complexity", Num(500))
        loudness == Get(f, "loudness", Num(-60000))
        loudness_norm == Max0(DivBy(Add(loudness, Num(60000)), 60))
    IN  IF IsNone(energy) \/ IsNone(complexity) \/ IsNone(loudness) THEN TypeError
        ELSE Ok(Add(Add(Scale(energy, 400), Scale(complexity, 300)),
                    Scale(loudness_norm, 300)))

\* lines 358-369; arithmetic on None raises TypeError as well.
CalculateIntensity(f) ==
    LET energy == Get(f, "energy", Num(0))
        complexity == Get(f, "complexity", Num(500))
        loudness == Get(f, "loudness", Num(-60000))
        loudness_norm == Max0(DivBy(Add(loudness, Num(60000)), 60))
        intensity == Add(Add(Scale(energy, 400), Scale(complexity, 300)),
                         Scale(loudness_norm, 300))
    IN  IF IsNone(energy) \/ IsNone(complexity) \/ IsNone(loudness) THEN TypeError
        ELSE Ok(Min1(intensity))

\* lines 371-384
DetermineGenre(f, category) ==
    LET spectral_centroid == Get(f, "spectral_centroid", Num(500))
    IN  IF category = "musical"
        THEN IF CmpRaises(spectral_centroid) THEN TypeError
             ELSE IF GT(spectral_centroid, 600) THEN Ok("electronic")
             ELSE Ok("acoustic")
        ELSE IF category = "percussion" THEN Ok("percussion")
        ELSE IF category = "ambient" THEN Ok("ambient")
        ELSE Ok("sound_effect")

\* lines 262-286: the five steps in order; the first that raises ends the call.
ClassifySample(f) ==
    LET category == DetermineCategory(f)
        tags == ExtractTags(f, category.value)
        mood == DetermineMood(f)
        intensity == CalculateIntensity(f)
        genre == DetermineGenre(f, category.value)
    IN  IF category.raised \/ tags.raised \/ mood.raised \/ intensity.raised
           \/ genre.raised
        THEN TypeError
        ELSE Ok([category |-> Str(category.value),
                 tags |-> tags.value,
                 mood |-> Str(mood.value),
                 intensity |-> intensity.value,
                 genre |-> Str(genre.value)])

----------------------------------------------------------------------------
(* SampleAnalyzer.analyze_sample                                           *)

AnalyzeRaises(e) ==
    /\ pc' = "done"
    /\ exc' = e
    /\ UNCHANGED ret

\* Mutant: the wrapper drops the loader's message.
WrapLoadErrorNoDetail(e) == Exc("ValueError", "Failed to load audio file")

\* lines 32-33: whatever load_audio raised is wrapped in a ValueError.
WrapLoadError(e) == Exc("ValueError", "Failed to load audio file: " \o e.msg)

AnLoadFailed ==
    /\ pc = "an_load_failed"
    /\ AnalyzeRaises(WrapLoadError(loaderExc))
    /\ UNCHANGED <<elsewhere, config, op, file, calls, info, validation, features, failed, inflight,
                   loaded, loaderExc>>

\* lines 35-42: the emptiness check and the basic properties.
AnLoaded ==
    /\ pc = "an_loaded"
    /\ IF loaded.audio.len = 0
       THEN /\ AnalyzeRaises(Exc("ValueError", "Audio file is empty or could not be loaded"))
            /\ UNCHANGED features
       ELSE /\ features' = Update(EmptyDict, ExtractBasicProperties(loaded.audio, loaded.sr))
            /\ pc' = "an_musical"
            /\ UNCHANGED <<ret, exc>>
    /\ UNCHANGED <<elsewhere, config, op, file, calls, info, validation, failed, inflight, loaded,
                   loaderExc>>

\* One extraction group has run with the try blocks F raising: its features
\* are merged into the dict.
Group(label, next, F, new) ==
    /\ pc = label
    /\ features' = Update(features, new)
    /\ failed' = failed \cup F
    /\ pc' = next
    /\ UNCHANGED <<elsewhere, config, op, file, calls, info, validation, inflight, loaded, loaderExc,
                   ret, exc>>

\* line 45
AnMusical ==
    \E F \in SUBSET {"tempo", "key"} :
       Group("an_musical", "an_spectral", F,
             ExtractMusicalFeatures(Measure(file.sig), F))

\* line 48
AnSpectral ==
    \E F \in SUBSET {"centroid", "rolloff", "zcr", "mfcc"} :
       Group("an_spectral", "an_rhythmic", F,
             ExtractSpectralFeatures(Measure(file.sig), loaded.audio, F))

\* line 51
AnRhythmic ==
    \E F \in SUBSET {"rhythm"} :
       Group("an_rhythmic", "an_harmonic", F,
             ExtractRhythmicFeatures(Measure(file.sig), F))

\* line 54
AnHarmonic ==
    \E F \in SUBSET {"harmonic"} :
       Group("an_harmonic", "an_perceptual", F,
             ExtractHarmonicFeatures(Measure(file.sig), F))

\* line 57
AnPerceptual ==
    \E F \in SUBSET {"rms", "complexity"} :
       Group("an_perceptual", "an_classify", F,
             ExtractPerceptualFeatures(Measure(file.sig), F))

\* Mutant: the genre also depends on how the file was decoded.
AnClassifyByDecoder ==
    /\ pc = "an_classify"
    /\ LET c == ClassifySample(features)
       IN  IF c.raised
           THEN /\ AnalyzeRaises(Exc("TypeError", "'>' not supported between instances of 'NoneType' and 'float'"))
                /\ UNCHANGED features
           ELSE /\ features' = Update(features,
                                     IF Len(calls) > 1
                                     THEN [c.value EXCEPT !.genre = Str("sound_effect")]
                                     ELSE c.value)
                /\ pc' = "done"
                /\ ret' = [kind |-> "features", features |-> features']
                /\ exc' = NoExc
    /\ UNCHANGED <<elsewhere, config, op, file, calls, info, validation, failed, inflight, loaded,
                   loaderExc>>

\* lines 60-62: the classifier runs outside any try block.
AnClassify ==
    /\ pc = "an_classify"
    /\ LET c == ClassifySample(features)
       IN  IF c.raised
           THEN /\ AnalyzeRaises(Exc("TypeError", "'>' not supported between instances of 'NoneType' and 'float'"))
                /\ UNCHANGED features
           ELSE /\ features' = Update(features, c.value)
                /\ pc' = "done"
                /\ ret' = [kind |-> "features", features |-> features']
                /\ exc' = NoExc
    /\ UNCHANGED <<elsewhere, config, op, file, calls, info, validation, failed, inflight, loaded,
                   loaderExc>>

----------------------------------------------------------------------------
(* The caller                                                              *)

NotLoaded == [audio |-> NoAudio, sr |-> 0]

\* No call is running: nothing of a call is left.
NoCall ==
    [op |-> "none", pc |-> "idle", file |-> NoFile, calls |-> <<>>, info |-> EmptyDict,
     validation |-> InitialValidation, features |-> EmptyDict, failed |-> {},
     inflight |-> NoExc, loaded |-> NotLoaded, loaderExc |-> NoExc, ret |-> NoValue,
     exc |-> NoExc, arg_category |-> "", measured |-> EmptyDict]

\* A call starts with fresh locals.
Begin(name, f, start) ==
    /\ pc = "idle"
    /\ op' = name
    /\ pc' = start
    /\ file' = f
    /\ UNCHANGED <<elsewhere, config, calls, info, validation, features, failed, inflight, loaded,
                   loaderExc, ret, exc>>

\* The caller has taken the result (or the exception); the call's locals are gone.
Finish ==
    /\ pc = "done"
    /\ op' = NoCall.op
    /\ pc' = NoCall.pc
    /\ file' = NoCall.file
    /\ calls' = NoCall.calls
    /\ info' = NoCall.info
    /\ validation' = NoCall.validation
    /\ features' = NoCall.features
    /\ failed' = NoCall.failed
    /\ inflight' = NoCall.inflight
    /\ loaded' = NoCall.loaded
    /\ loaderExc' = NoCall.loaderExc
    /\ ret' = NoCall.ret
    /\ exc' = NoCall.exc
    /\ arg_category' = NoCall.arg_category
    /\ measured' = NoCall.measured
    /\ UNCHANGED <<config, parked, api>>

CallLoadAudio == \E f \in Files : Begin("load_audio", f, "load_checks")

CallGetAudioInfo == \E f \in Files : Begin("get_audio_info", f, "info_init")

CallValidate == \E f \in Files : Begin("validate_audio_file", f, "val_checks")

CallAnalyze == \E f \in Files : Begin("analyze_sample", f, "load_checks")

\* AudioLoader.__init__ (lines 29-31) with SampleAnalyzer's rate (line 16); the
\* two import flags are whatever the installation gives.
Init ==
    /\ LIBROSA_AVAILABLE \in BOOLEAN
    /\ PYDUB_AVAILABLE \in BOOLEAN
    /\ target_sample_rate = 22050
    /\ supported_formats = << <<".","w","a","v">>, <<".","m","p","3">>,
                              <<".","f","l","a","c">>, <<".","o","g","g">>,
                              <<".","m","4","a">>, <<".","a","a","c">>,
                              <<".","w","m","a">> >>
    /\ op = NoCall.op
    /\ pc = NoCall.pc
    /\ file = NoCall.file
    /\ calls = NoCall.calls
    /\ info = NoCall.info
    /\ validation = NoCall.validation
    /\ features = NoCall.features
    /\ failed = NoCall.failed
    /\ inflight = NoCall.inflight
    /\ loaded = NoCall.loaded
    /\ loaderExc = NoCall.loaderExc
    /\ ret = NoCall.ret
    /\ exc = NoCall.exc
    /\ arg_category = NoCall.arg_category
    /\ measured = NoCall.measured
    /\ parked = NoCall
    /\ users = {}
    /\ revoked_tokens = {}
    /\ issued = {}
    /\ now = 0
    /\ response = NoResponse
    /\ logged_out = {}
    /\ tracks = {}
    /\ samples = {}
    /\ generated_audio = {}
    /\ disk = {}

LoadSteps ==
    \/ LoadChecks
    \/ LoadLibrosa
    \/ LoadPydub
    \/ LoadLibrosaNative
    \/ LoadExhausted

Next ==
    \/ CallLoadAudio
    \/ CallGetAudioInfo
    \/ CallValidate
    \/ LoadSteps
    \/ InfoInit
    \/ InfoLibrosa
    \/ InfoDuration
    \/ InfoPydub
    \/ ValChecks
    \/ ValFormat
    \/ ValLoaded
    \/ ValLoadFailed
    \/ ValExcept
    \/ Finish

Spec == Init /\ [][Next]_vars

\* analyze_sample and the load_audio it calls.
AnalyzeSteps ==
    \/ AnLoadFailed
    \/ AnLoaded
    \/ AnMusical
    \/ AnSpectral
    \/ AnRhythmic
    \/ AnHarmonic
    \/ AnPerceptual
    \/ AnClassify

NextAnalyze ==
    \/ CallLoadAudio
    \/ CallAnalyze
    \/ LoadSteps
    \/ AnalyzeSteps
    \/ Finish

SpecAnalyze == Init /\ [][NextAnalyze]_vars

----------------------------------------------------------------------------
(* Properties: the decoder                                                 *)

StrategyOrder == <<"librosa.load", "_load_with_pydub", "librosa.load(sr=None)">>

IsStrategy(e) == InList(e.fn, StrategyOrder)

\* The decode strategies load_audio has invoked so far in this call.
LoadCalls == SelectSeq(calls, IsStrategy)

\* The strategies whose backend was imported, in the order of the chain.
StrategyAvailable(fn) == IF fn = "_load_with_pydub" THEN PYDUB_AVAILABLE ELSE LIBROSA_AVAILABLE
AvailOrder == SelectSeq(StrategyOrder, StrategyAvailable)

LoadReturned == loaded # NotLoaded

Exhausted == Exc("ValueError", "Could not load audio file with any available method")

\* The extensions the claims list.
AllowList ==
    { <<".","w","a","v">>, <<".","m","p","3">>, <<".","f","l","a","c">>,
      <<".","o","g","g">>, <<".","m","4","a">>, <<".","a","a","c">>, <<".","w","m","a">> }

ExtensionAllowed(f) == Lower(Suffix(f.name)) \in AllowList

\* C1 as claimed: the i-th strategy invoked is the i-th of the fixed order
\* (so each earlier one of the three was invoked), every strategy invoked
\* before another one raised or gave an empty waveform, and what load_audio
\* returns is the result of the last strategy invoked, the first non-empty one.
C1_AsClaimed ==
    /\ \A i \in 1..Len(LoadCalls) :
          /\ LoadCalls[i].fn = StrategyOrder[i]
          /\ \A j \in 1..(i - 1) : LoadCalls[j].outcome \in {"raised", "empty"}
    /\ LoadReturned =>
          /\ Len(LoadCalls) > 0
          /\ LoadCalls[Len(LoadCalls)].outcome = "ok"
          /\ loaded.audio.len = LoadCalls[Len(LoadCalls)].len
          /\ loaded.sr = LoadCalls[Len(LoadCalls)].sr

\* C1 amended: load_audio invokes the strategies whose backend was imported,
\* in the fixed order librosa at the target rate, pydub, librosa at the native
\* rate; a strategy whose backend is missing is skipped without being invoked;
\* a later strategy is invoked only if every strategy invoked before it raised
\* or gave an empty waveform; a non-empty result ends the chain at once and is
\* the value returned.
C1_OrderedFallback ==
    /\ Len(LoadCalls) <= Len(AvailOrder)
    /\ \A i \in 1..Len(LoadCalls) :
          /\ LoadCalls[i].fn = AvailOrder[i]
          /\ \A j \in 1..(i - 1) : LoadCalls[j].outcome \in {"raised", "empty"}
    /\ LoadReturned <=>
          (Len(LoadCalls) > 0 /\ LoadCalls[Len(LoadCalls)].outcome = "ok")
    /\ LoadReturned =>
          /\ loaded.audio.len = LoadCalls[Len(LoadCalls)].len
          /\ loaded.sr = LoadCalls[Len(LoadCalls)].sr
          /\ loaderExc = NoExc

\* The third strategy gave the result after the first raised and the second
\* gave an empty waveform.
C1_Witness ==
    /\ LoadReturned
    /\ Len(LoadCalls) = 3
    /\ LoadCalls[1].outcome = "raised"
    /\ LoadCalls[2].outcome = "empty"
    /\ LoadCalls[3].fn = "librosa.load(sr=None)"

\* C2 as claimed: for an existing file with a supported extension, load_audio
\* raises only the exhausted error, and only after all three strategies were
\* attempted and each raised or gave an empty waveform.
C2_AsClaimed ==
    (file.exists /\ ExtensionAllowed(file) /\ loaderExc # NoExc) =>
        /\ loaderExc = Exhausted
        /\ Len(LoadCalls) = 3
        /\ \A i \in 1..Len(LoadCalls) : LoadCalls[i].outcome \in {"raised", "empty"}

\* C2 amended: for an existing file with a supported extension, load_audio
\* raises only its could-not-load error, and only after every strategy whose
\* backend was imported has been attempted and each raised or gave an empty
\* waveform (with no backend imported it raises at once); an exception raised
\* inside a strategy never reaches the caller on its own.
C2_RaisesOnlyWhenExhausted ==
    (file.exists /\ ExtensionAllowed(file) /\ loaderExc # NoExc) =>
        /\ loaderExc = Exhausted
        /\ Len(LoadCalls) = Len(AvailOrder)
        /\ \A i \in 1..Len(LoadCalls) :
              /\ LoadCalls[i].fn = AvailOrder[i]
              /\ LoadCalls[i].outcome \in {"raised", "empty"}

\* All three strategies were attempted, one of them raised, and load_audio
\* raised the could-not-load error.
C2_Witness ==
    /\ file.exists /\ ExtensionAllowed(file)
    /\ loaderExc = Exhausted
    /\ Len(LoadCalls) = 3
    /\ \E i \in 1..3 : LoadCalls[i].outcome = "raised"
    /\ \E i \in 1..3 : LoadCalls[i].outcome = "empty"

\* C3: for an existing file whose lower-cased extension is not in the
\* allow-list, load_audio and analyze_sample invoke no decode backend (nothing
\* at all is called), return nothing, and end by raising a ValueError.
C3_UnsupportedFailsBeforeDecode ==
    (op \in {"load_audio", "analyze_sample"} /\ file.exists /\ ~ExtensionAllowed(file)) =>
        /\ calls = <<>>
        /\ ~LoadReturned
        /\ ret = NoValue
        /\ pc \in {"load_checks", "an_load_failed", "done"}
        /\ pc = "done" => exc.type = "ValueError"

\* analyze_sample on the existing file f.AIF has failed.
C3_Witness ==
    /\ op = "analyze_sample"
    /\ pc = "done"
    /\ file.exists
    /\ Suffix(file.name) = <<".","A","I","F">>
    /\ exc # NoExc

\* C4 as claimed: validate_audio_file on an existing, non-empty file with an
\* unsupported extension (whose size could be read) returns is_valid = false
\* with the unsupported-format error, and neither get_audio_info nor any
\* decode backend has been called.
C4_AsClaimed ==
    (/\ op = "validate_audio_file" /\ pc = "done"
     /\ file.exists /\ file.size > 0 /\ ~ExtensionAllowed(file)
     /\ inflight = NoExc) =>
        /\ ~ret.validation.is_valid
        /\ ret.validation.errors = <<"Unsupported format">>
        /\ calls = <<>>

\* C5: validate_audio_file never raises: it always returns a report, and for
\* a missing file, an empty file, or a supported file on which load_audio
\* failed, the report has is_valid = false, loadable = false and a non-empty
\* errors list.
C5_ValidateNeverRaises ==
    (op = "validate_audio_file" /\ pc = "done") =>
        /\ exc = NoExc
        /\ ret.kind = "validation"
        /\ (~file.exists \/ file.size = 0 \/ (ExtensionAllowed(file) /\ ~LoadReturned)) =>
              /\ ~ret.validation.is_valid
              /\ ~ret.validation.loadable
              /\ ret.validation.errors # <<>>

\* A supported file on which all three strategies failed has been validated.
C5_Witness ==
    /\ op = "validate_audio_file" /\ pc = "done"
    /\ ExtensionAllowed(file)
    /\ loaderExc = Exhausted
    /\ Len(LoadCalls) = 3
    /\ ret.validation.errors # <<>>

\* C6: whenever load_audio has returned, the waveform is non-empty and the
\* sample rate returned is the loader's target sample rate.
C6_NonEmptyAtTargetRate ==
    LoadReturned => (loaded.audio.len > 0 /\ loaded.sr = target_sample_rate)

\* The third strategy returned the waveform of a file whose native rate is not
\* the target rate.
C6_Witness ==
    /\ LoadReturned
    /\ Len(LoadCalls) > 0
    /\ LoadCalls[Len(LoadCalls)].fn = "librosa.load(sr=None)"
    /\ file.native_sr # target_sample_rate

\* C10 as claimed: in a get_audio_info that has returned, a partial decode
\* that raised is followed by an attempt of the librosa duration probe, and
\* after a partial decode that succeeded and a duration probe that raised the
\* sample rate is the one the partial decode read.
C10_AsClaimed ==
    (op = "get_audio_info" /\ pc = "done" /\ exc = NoExc) =>
        /\ (\E i \in 1..Len(calls) :
               calls[i] = LogEntry("librosa.load(duration=1.0)", "raised"))
           => (\E i \in 1..Len(calls) : calls[i].fn = "librosa.get_duration")
        /\ (\E i \in 1..Len(calls) :
               calls[i] = LogEntry("librosa.get_duration", "raised"))
           => ret.info.sample_rate = Num(file.native_sr)

----------------------------------------------------------------------------
(* Properties: the analysis pipeline                                       *)

\* C7 as claimed: once load_audio has returned a waveform, analyze_sample
\* returns a record and raises nothing.
C7_AsClaimed ==
    (op = "analyze_sample" /\ pc = "done" /\ LoadReturned) =>
        (exc = NoExc /\ ret.kind = "features")

FeatureKeys ==
    {"duration_sec", "sample_rate", "channels", "size", "tempo_bpm", "key_signature",
     "time_signature", "spectral_centroid", "spectral_rolloff", "zero_crossing_rate",
     "mfcc_features", "rhythm_pattern", "harmonic_content", "loudness", "energy",
     "complexity"}

\* The try block that computes each feature.
BlockOf(k) ==
    CASE k \in {"tempo_bpm", "time_signature"} -> "tempo"
      [] k = "key_signature" -> "key"
      [] k = "spectral_centroid" -> "centroid"
      [] k = "spectral_rolloff" -> "rolloff"
      [] k = "zero_crossing_rate" -> "zcr"
      [] k = "mfcc_features" -> "mfcc"
      [] k = "rhythm_pattern" -> "rhythm"
      [] k = "harmonic_content" -> "harmonic"
      [] k \in {"loudness", "energy"} -> "rms"
      [] k = "complexity" -> "complexity"
      [] OTHER -> "none"

\* The defaults the claim documents.
DocumentedDefault(k) ==
    CASE k = "time_signature" -> Num(4)
      [] k = "rhythm_pattern" ->
           [beat_count |-> Num(0), avg_interval |-> None, interval_std |-> None,
            rhythm_regularity |-> Num(0)]
      [] k = "harmonic_content" ->
           [harmonic_ratio |-> Num(500), chroma_profile |-> [i \in 1..12 |-> 0],
            harmonic_complexity |-> Num(0)]
      [] k = "loudness" -> Num(-60000)
      [] k = "energy" -> Num(0)
      [] k = "complexity" -> Num(500)
      [] OTHER -> None

\* The record the six groups build on this waveform when nothing raises.
Unfailed ==
    LET m == Measure(file.sig)
    IN  ExtractPerceptualFeatures(m, {}) @@ ExtractHarmonicFeatures(m, {})
        @@ ExtractRhythmicFeatures(m, {}) @@ ExtractSpectralFeatures(m, loaded.audio, {})
        @@ ExtractMusicalFeatures(m, {}) @@ ExtractBasicProperties(loaded.audio, loaded.sr)

\* C8: the record the six groups have built has exactly the documented keys;
\* a feature whose computation raised holds its documented default, and every
\* other feature holds the value it has when nothing raises at all, whatever
\* else raised.
C8_SameKeysAndDefaults ==
    (op = "analyze_sample" /\ pc = "an_classify") =>
        /\ DOMAIN features = FeatureKeys
        /\ \A k \in FeatureKeys :
              features[k] = IF BlockOf(k) \in failed THEN DocumentedDefault(k)
                            ELSE Unfailed[k]

\* The six groups are done; the centroid, harmonic and RMS computations
\* raised, the rolloff, tempo and rhythm computations did not.
C8_Witness ==
    /\ op = "analyze_sample" /\ pc = "an_classify"
    /\ {"centroid", "harmonic", "rms"} \subseteq failed
    /\ failed \cap {"rolloff", "tempo", "rhythm"} = {}
    /\ Len(Measure(file.sig).beats) > 1

\* C9 as claimed: when load_audio raised, analyze_sample raises that same
\* error.
C9_AsClaimed ==
    (op = "analyze_sample" /\ pc = "done" /\ loaderExc # NoExc) => exc = loaderExc

\* C9 amended: a fatal decode-stage error raised by the loader reaches the
\* caller of analyze_sample as a new ValueError whose message is "Failed to
\* load audio file: " followed by the loader's message; the loader's exception
\* type is not kept, and the three kinds (file not found, unsupported format,
\* strategies exhausted) differ in the message text only.
C9_WrappedInValueError ==
    (op = "analyze_sample" /\ pc = "done" /\ ~LoadReturned) =>
        /\ exc.type = "ValueError"
        /\ exc.msg =
             IF ~file.exists THEN "Failed to load audio file: Audio file not found"
             ELSE IF ~ExtensionAllowed(file)
             THEN "Failed to load audio file: Unsupported audio format"
             ELSE "Failed to load audio file: Could not load audio file with any available method"

\* The loader raised FileNotFoundError and analyze_sample has raised.
C9_Witness ==
    /\ op = "analyze_sample" /\ pc = "done"
    /\ loaderExc.type = "FileNotFoundError"
    /\ exc # NoExc

----------------------------------------------------------------------------
(* Properties: get_audio_info                                              *)

\* Some probe of the running get_audio_info came back without raising.
ProbeSucceeded == \E i \in 1..Len(calls) : calls[i].outcome = "ok"

\* C11 as claimed: in the dict get_audio_info returns, duration_sec,
\* sample_rate, channels and bit_depth each are either unset or the value the
\* file itself holds, and all four are unset when no probe succeeded.
C11_AsClaimed ==
    (op = "get_audio_info" /\ pc = "done" /\ exc = NoExc) =>
        LET i == ret.info
        IN  /\ i.sample_rate \in {None, Num(file.native_sr)}
            /\ i.channels \in {None, Num(file.channels)}
            /\ i.bit_depth \in {None, Num(file.sample_width * 8)}
            /\ i.duration_sec \in {None, Num((file.frames * 1000) \div file.native_sr),
                                   Num(PydubLenMs(PydubFromFile(file, "decoded")))}
            /\ ~ProbeSucceeded =>
                  /\ i.sample_rate = None /\ i.channels = None
                  /\ i.bit_depth = None /\ i.duration_sec = None

----------------------------------------------------------------------------
(* The classifier's functions called on their own                          *)

\* The part of a feature record the classifier reads (sample_analysis.py
\* lines 291-293, 309, 316, 323, 343-345, 360-362, 374), in thousandths.
\* harmonic_ratio: a ratio, nan for 0/0, 0.5 after a failure.
HarmonicRatios == {Num(500), Num(700), Num(701), NaN}

\* zero_crossing_rate: None after a failure.
ZeroCrossingRates == {None, Num(150), Num(151)}

\* spectral_centroid: None after a failure.
SpectralCentroids == {None, Num(299), Num(300), Num(600), Num(601), Num(700), Num(701)}

\* complexity: clipped to 1.0 by the extractor, 0.5 after a failure.
Complexities == {Num(0), Num(299), Num(300), Num(700), Num(701), Num(1000)}

\* energy = mean(rms) with loudness = 20 * log10(mean(rms) + 1e-10) of the same
\* rms (lines 231-244); (0.0, -60.0) after a failure; the last pair is a float
\* waveform that exceeds full scale.
Perceptuals ==
    { [energy |-> Num(0), loudness |-> Num(-60000)],
      [energy |-> Num(0), loudness |-> Num(-200000)],
      [energy |-> Num(9), loudness |-> Num(-40915)],
      [energy |-> Num(10), loudness |-> Num(-40000)],
      [energy |-> Num(19), loudness |-> Num(-34425)],
      [energy |-> Num(20), loudness |-> Num(-33979)],
      [energy |-> Num(50), loudness |-> Num(-26021)],
      [energy |-> Num(51), loudness |-> Num(-25849)],
      [energy |-> Num(100), loudness |-> Num(-20000)],
      [energy |-> Num(101), loudness |-> Num(-19914)],
      [energy |-> Num(1000), loudness |-> Num(0)],
      [energy |-> Num(2000), loudness |-> Num(6021)] }

FeatureRecords ==
    { [harmonic_content |-> [harmonic_ratio |-> h],
       zero_crossing_rate |-> z,
       spectral_centroid |-> c,
       complexity |-> x,
       energy |-> p.energy,
       loudness |-> p.loudness] :
         h \in HarmonicRatios, z \in ZeroCrossingRates, c \in SpectralCentroids,
         x \in Complexities, p \in Perceptuals }

Categories == {"musical", "percussion", "ambient", "fx"}

\* A classifier function is called with the record f (and a category).
BeginClassifier(name, f, c) ==
    /\ pc = "idle"
    /\ op' = name
    /\ pc' = "classifier"
    /\ features' = f
    /\ arg_category' = c
    /\ UNCHANGED <<config, api, measured, parked, file, calls, info, validation, failed, inflight, loaded,
                   loaderExc, ret, exc>>

\* The function returns r.value, or the TypeError of a comparison with None
\* reaches the caller.
ClassifierReturns(name, r) ==
    /\ pc = "classifier"
    /\ op = name
    /\ pc' = "done"
    /\ IF r.raised
       THEN /\ exc' = Exc("TypeError", "'>' not supported between instances of 'NoneType' and 'float'")
            /\ UNCHANGED ret
       ELSE /\ ret' = [kind |-> "value", value |-> r.value]
            /\ exc' = NoExc
    /\ UNCHANGED <<elsewhere, config, op, file, calls, info, validation, features, failed,
                   inflight, loaded, loaderExc>>

CallDetermineCategory ==
    /\ pc = "idle"
    /\ \E f \in FeatureRecords : BeginClassifier("_determine_category", f, "")

CallExtractTags ==
    /\ pc = "idle"
    /\ \E f \in FeatureRecords, c \in Categories : BeginClassifier("_extract_tags", f, c)

CallDetermineMood ==
    /\ pc = "idle"
    /\ \E f \in FeatureRecords : BeginClassifier("_determine_mood", f, "")

CallCalculateIntensity ==
    /\ pc = "idle"
    /\ \E f \in FeatureRecords : BeginClassifier("_calculate_intensity", f, "")

CallDetermineGenre ==
    /\ pc = "idle"
    /\ \E f \in FeatureRecords, c \in Categories : BeginClassifier("_determine_genre", f, c)

CallClassifySample ==
    /\ pc = "idle"
    /\ \E f \in FeatureRecords : BeginClassifier("_classify_sample", f, "")

RunDetermineCategory == ClassifierReturns("_determine_category", DetermineCategory(features))

RunExtractTags == ClassifierReturns("_extract_tags", ExtractTags(features, arg_category))

RunDetermineMood == ClassifierReturns("_determine_mood", DetermineMood(features))

RunCalculateIntensity ==
    ClassifierReturns("_calculate_intensity", CalculateIntensity(features))

RunDetermineGenre == ClassifierReturns("_determine_genre", DetermineGenre(features, arg_category))

RunClassifySample == ClassifierReturns("_classify_sample", ClassifySample(features))

NextClassify ==
    \/ CallDetermineCategory
    \/ CallExtractTags
    \/ CallDetermineMood
    \/ CallCalculateIntensity
    \/ CallDetermineGenre
    \/ CallClassifySample
    \/ RunDetermineCategory
    \/ RunExtractTags
    \/ RunDetermineMood
    \/ RunCalculateIntensity
    \/ RunDetermineGenre
    \/ RunClassifySample
    \/ Finish

SpecClassify == Init /\ [][NextClassify]_vars

----------------------------------------------------------------------------
(* Properties: the classifier                                              *)

\* The first matching rule of the category table.
CategoryRule(f) ==
    IF GT(f.harmonic_content.harmonic_ratio, 700) THEN "musical"
    ELSE IF GT(f.zero_crossing_rate, 150) THEN "percussion"
    ELSE IF LT(f.energy, 10) THEN "ambient"
    ELSE "fx"

\* C12 as claimed: for every feature record _determine_category returns, and
\* what it returns is the category of the first matching rule: harmonic_ratio
\* > 0.7 musical, else zero_crossing_rate > 0.15 percussion, else energy <
\* 0.01 ambient, else fx.
C12_AsClaimed ==
    (op = "_determine_category" /\ pc = "done") =>
        /\ exc = NoExc
        /\ ret.kind = "value"
        /\ ret.value \in Categories
        /\ ret.value = CategoryRule(features)

\* The first matching rule of the mood table.
MoodRule(f) ==
    IF GT(f.spectral_centroid, 700) /\ GT(f.energy, 50) THEN "bright"
    ELSE IF LT(f.spectral_centroid, 300) /\ LT(f.energy, 20) THEN "dark"
    ELSE IF GT(f.energy, 100) THEN "energetic"
    ELSE IF GT(f.complexity, 700) THEN "mysterious"
    ELSE "neutral"

Moods == {"bright", "dark", "energetic", "mysterious", "neutral"}

\* C13 as claimed: for every feature record _determine_mood returns, and what
\* it returns is the mood of the first matching rule: centroid > 0.7 and
\* energy > 0.05 bright, centroid < 0.3 and energy < 0.02 dark, energy > 0.1
\* energetic, complexity > 0.7 mysterious, else neutral.
C13_AsClaimed ==
    (op = "_determine_mood" /\ pc = "done") =>
        /\ exc = NoExc
        /\ ret.kind = "value"
        /\ ret.value \in Moods
        /\ ret.value = MoodRule(features)

\* s has no element twice.
NoDuplicate(s) == \A i, j \in 1..Len(s) : s[i] = s[j] => i = j

\* The number of elements of s that are in the set S.
CountIn(s, S) == Cardinality({i \in 1..Len(s) : s[i] \in S})

\* The two fixed tags of each category, as the tag rules list them.
FixedTags(c) ==
    CASE c = "musical" -> <<"tonal", "harmonic">>
      [] c = "percussion" -> <<"rhythmic", "percussive">>
      [] c = "ambient" -> <<"atmospheric", "textural">>
      [] c = "fx" -> <<"effect", "impact">>

\* The descriptive tags in the order they may appear: rank 1 for the spectral
\* pair, 2 for the energy pair, 3 for the complexity pair.
TagRank(t) ==
    CASE t \in {"bright", "dark"} -> 1
      [] t \in {"loud", "quiet"} -> 2
      [] t \in {"complex", "simple"} -> 3
      [] OTHER -> 0

\* C14: every tags list _extract_tags returns has no duplicate, ends with
\* exactly the two fixed tags of the category it was called with, and holds
\* before them at most one of bright/dark, then at most one of loud/quiet,
\* then at most one of complex/simple, and nothing else.
C14_TagsWellFormed ==
    (op = "_extract_tags" /\ pc = "done" /\ exc = NoExc) =>
        LET tags == ret.value
            n == Len(tags) - 2
        IN  /\ NoDuplicate(tags)
            /\ n >= 0
            /\ SubSeq(tags, n + 1, n + 2) = FixedTags(arg_category)
            /\ CountIn(tags, {"bright", "dark"}) <= 1
            /\ CountIn(tags, {"loud", "quiet"}) <= 1
            /\ CountIn(tags, {"complex", "simple"}) <= 1
            /\ \A i \in 1..n : TagRank(tags[i]) > 0
            /\ \A i, j \in 1..n : i < j => TagRank(tags[i]) < TagRank(tags[j])

\* _extract_tags has returned a list with a tag of each of the three pairs
\* before the two fixed tags.
C14_Witness ==
    /\ op = "_extract_tags" /\ pc = "done" /\ exc = NoExc
    /\ Len(ret.value) = 5
    /\ ret.value[1] = "dark" /\ ret.value[2] = "loud" /\ ret.value[3] = "complex"
    /\ arg_category = "percussion"

\* 0.4 * energy + 0.3 * complexity + 0.3 * max(0, (loudness + 60) / 60) of a
\* record of numbers, in thousandths.
WeightedSum(f) ==
    LET norm == (f.loudness.v + 60000) \div 60
    IN  (f.energy.v * 400) \div 1000 + (f.complexity.v * 300) \div 1000
        + ((IF norm > 0 THEN norm ELSE 0) * 300) \div 1000

\* C15: for every feature record the extractor can produce,
\* _calculate_intensity returns min(1, 0.4*energy + 0.3*complexity +
\* 0.3*max(0, (loudness+60)/60)), a number in [0, 1].
C15_IntensityInUnitInterval ==
    (op = "_calculate_intensity" /\ pc = "done") =>
        /\ exc = NoExc
        /\ ret.value.tag = "num"
        /\ ret.value.v >= 0 /\ ret.value.v <= 1000
        /\ ret.value.v = (IF WeightedSum(features) < 1000 THEN WeightedSum(features)
                          ELSE 1000)

\* _calculate_intensity has clipped a weighted sum above 1 to 1.
C15_Witness ==
    /\ op = "_calculate_intensity" /\ pc = "done" /\ exc = NoExc
    /\ WeightedSum(features) > 1000
    /\ ret.value = Num(1000)

----------------------------------------------------------------------------
(* features.py: extract_audio_features                                     *)

\* librosa.load's default rate, at which analyze_audio decodes (analyze.py
\* line 33).
DefaultRate == 22050

\* tempo (BPM, thousandths) with the beat frames beat_track returns.
Rhythms ==
    { [tempo |-> 0, beats |-> <<>>],
      [tempo |-> 60100, beats |-> <<10>>],
      [tempo |-> 120000, beats |-> <<5, 27, 48, 70>>],
      [tempo |-> 240000, beats |-> <<3, 14, 25>>] }

\* Mean and standard deviation of the spectral centroid frames, in Hz; both
\* are 0 on silence.
Centroids ==
    { [mean |-> 0, std |-> 0], [mean |-> 440, std |-> 4], [mean |-> 2000, std |-> 1600],
      [mean |-> 8000, std |-> 80], [mean |-> 8000, std |-> 6400] }

\* np.mean(harmonic) and np.mean(y), in millionths: signed, both 0 on silence.
SignalMeans ==
    { [harmonic |-> 0, y |-> 0], [harmonic |-> -2, y |-> 1], [harmonic |-> 1, y |-> 2],
      [harmonic |-> 3, y |-> 1] }

\* mean(rms) in thousandths with 20 * log10(mean(rms) + 1e-10) in thousandths
\* of a dB.
Levels == { [rms |-> 0, db |-> -200000], [rms |-> 354, db |-> -9020] }

\* What librosa measures on one waveform: rolloff and bandwidth means in Hz,
\* contrast mean in thousandths of a dB, mean MFCC variance and standard
\* deviation of the spectral flatness in thousandths, argmax of the mean chroma.
Measurements ==
    { [tempo |-> r.tempo, beats |-> r.beats, rms |-> l.rms, rms_db |-> l.db,
       centroid_mean |-> c.mean, centroid_std |-> c.std,
       harmonic_mean |-> s.harmonic, y_mean |-> s.y,
       rolloff_mean |-> ro, bandwidth_mean |-> bw, contrast_mean |-> co,
       mfcc_variance |-> mv, flatness_std |-> fl, key_index |-> k] :
         r \in Rhythms, l \in Levels, c \in Centroids, s \in SignalMeans,
         ro \in {0, 9000}, bw \in {0, 1000, 3000}, co \in {0, 20000},
         mv \in {0, 500000}, fl \in {0, 200}, k \in {0, 11} }

\* round(x, 1) of thousandths.
Round1(x) == ((x + 50) \div 100) * 100

\* 1 - a / b for integers a and b # 0, in thousandths.
OneMinus(a, b) == Num(1000 - (a * 1000) \div b)

\* lines 110-124: the intervals are differences of beat frame indices.
MixTimeSignature(beats) ==
    LET beat_intervals == Diff(beats)
    IN  IF Len(beat_intervals) > 0
        THEN IF MeanMilli(beat_intervals) < 500 THEN 4
             ELSE IF MeanMilli(beat_intervals) < 750 THEN 3
             ELSE 6
        ELSE 4

\* lines 17-126
ExtractAudioFeatures(m, sr) ==
    LET rhythm_strength == NpDiv(m.centroid_std, m.centroid_mean)
        danceability ==
            Min1(Add(Add(Scale(NpDiv(m.tempo, 120000), 300),
                         Scale(NpDiv(m.rms, 100), 400)),
                     Scale(rhythm_strength, 300)))
        harmonic_ratio == NpDiv(m.harmonic_mean, m.y_mean)
        valence ==
            Min1(Add(Add(Scale(harmonic_ratio, 400),
                         Scale(OneMinus(m.rolloff_mean * 2, sr), 300)),
                     Scale(OneMinus(m.bandwidth_mean, 2000), 300)))
        acousticness ==
            Min1(Add(Scale(OneMinus(m.centroid_mean, 2000), 500),
                     Scale(Num(m.contrast_mean \div 10), 500)))
        instrumentalness == Min1(Num(m.mfcc_variance \div 100))
        liveness == Min1(Num(m.flatness_std * 10))
        speech_ratio == (((m.bandwidth_mean * 1000) \div 2000)
                            * ((m.centroid_mean * 1000) \div 2000)) \div 1000
        speechiness == Min1(Num(speech_ratio * 2))
    IN  [danceability |-> danceability,
         energy |-> Num(m.rms),
         valence |-> valence,
         acousticness |-> acousticness,
         instrumentalness |-> instrumentalness,
         liveness |-> liveness,
         speechiness |-> speechiness,
         loudness |-> Num(Round1(m.rms_db)),
         tempo |-> Num(Round1(m.tempo)),
         key |-> Str(Keys[m.key_index + 1]),
         mode |-> Str("major"),
         time_signature |-> Num(MixTimeSignature(m.beats))]

\* analyze.py line 80: extract_audio_features is called on a decoded waveform.
CallExtractAudioFeatures ==
    /\ pc = "idle"
    /\ \E m \in Measurements :
          /\ measured' = m
          /\ loaded' = [audio |-> [len |-> DefaultRate * MaxSeconds, peak |-> 5000],
                        sr |-> DefaultRate]
    /\ op' = "extract_audio_features"
    /\ pc' = "mix"
    /\ UNCHANGED <<config, api, arg_category, parked, file, calls, info, validation, features,
                   failed, inflight, loaderExc, ret, exc>>

\* lines 17-126: nothing is caught, so a raising librosa call ends the function.
RunExtractAudioFeatures ==
    /\ pc = "mix"
    /\ pc' = "done"
    /\ \E o \in {"raise", "ok"} :
          IF o = "raise"
          THEN /\ exc' = Exc("ParameterError", "Audio buffer is not finite everywhere")
               /\ UNCHANGED ret
          ELSE /\ ret' = [kind |-> "mix", features |-> ExtractAudioFeatures(measured, loaded.sr)]
               /\ exc' = NoExc
    /\ UNCHANGED <<elsewhere, config, op, file, calls, info, validation, features, failed,
                   inflight, loaded, loaderExc>>

NextMix ==
    \/ CallExtractAudioFeatures
    \/ RunExtractAudioFeatures
    \/ Finish

SpecMix == Init /\ [][NextMix]_vars

\* The fields extract_audio_features bounds with min(1.0, ...).
BoundedFields ==
    {"danceability", "valence", "acousticness", "instrumentalness", "liveness",
     "speechiness"}

\* C16 as claimed: every min(1, ...)-bounded field of the record
\* extract_audio_features returns is a number in [0, 1], whatever was measured.
C16_AsClaimed ==
    (op = "extract_audio_features" /\ pc = "done" /\ exc = NoExc) =>
        \A k \in BoundedFields :
            /\ ret.features[k].tag = "num"
            /\ ret.features[k].v >= 0
            /\ ret.features[k].v <= 1000

----------------------------------------------------------------------------
(* Properties: the musical features                                        *)

\* The time signature of the tempo thresholds: 3 below 80 BPM, 4 below 120
\* BPM, 6 from 120 BPM on.
TempoRule(bpm) == IF bpm < 80000 THEN 3 ELSE IF bpm < 120000 THEN 4 ELSE 6

\* C17 as claimed: once _extract_musical_features has run, time_signature is 3
\* for every estimated tempo below 80 BPM (0 included), 4 for a tempo in
\* [80, 120), 6 for a tempo of 120 or more, and the default 4 exactly when no
\* tempo could be estimated.
C17_AsClaimed ==
    (op = "analyze_sample" /\ "time_signature" \in DOMAIN features) =>
        IF IsNone(features.tempo_bpm)
        THEN features.time_signature = Num(4)
        ELSE features.time_signature = Num(TempoRule(features.tempo_bpm.v))

\* C17: once _extract_musical_features has run, time_signature is the default
\* 4 when no tempo was estimated or the estimate is 0.0, and otherwise 3 for a
\* tempo below 80 BPM, 4 for a tempo in [80, 120), 6 for a tempo of 120 or
\* more.
C17_TimeSignatureByTempo ==
    (op = "analyze_sample" /\ "time_signature" \in DOMAIN features) =>
        IF IsNone(features.tempo_bpm) \/ features.tempo_bpm = Num(0)
        THEN features.time_signature = Num(4)
        ELSE features.time_signature = Num(TempoRule(features.tempo_bpm.v))

\* An analysis has estimated a tempo of 0 (a silent waveform) and has set the
\* time signature.
C17_Witness ==
    /\ op = "analyze_sample"
    /\ "time_signature" \in DOMAIN features
    /\ features.tempo_bpm = Num(0)
    /\ features.time_signature = Num(4)
    /\ "tempo" \notin failed

----------------------------------------------------------------------------
(* Two calls on the shared analyzer                                        *)

\* The locals of the running call.
Frame ==
    [op |-> op, pc |-> pc, file |-> file, calls |-> calls, info |-> info,
     validation |-> validation, features |-> features, failed |-> failed,
     inflight |-> inflight, loaded |-> loaded, loaderExc |-> loaderExc, ret |-> ret,
     exc |-> exc, arg_category |-> arg_category, measured |-> measured]

\* Mutant: the feature dict is an attribute of the shared analyzer, so the call
\* that resumes goes on with the dict the other call was filling.
SwitchSharesFeatures ==
    /\ parked' = Frame
    /\ op' = parked.op
    /\ pc' = parked.pc
    /\ file' = parked.file
    /\ calls' = parked.calls
    /\ info' = parked.info
    /\ validation' = parked.validation
    /\ failed' = parked.failed
    /\ inflight' = parked.inflight
    /\ loaded' = parked.loaded
    /\ loaderExc' = parked.loaderExc
    /\ ret' = parked.ret
    /\ exc' = parked.exc
    /\ arg_category' = parked.arg_category
    /\ measured' = parked.measured
    /\ UNCHANGED <<config, api, features>>

\* The worker thread of the running call is descheduled and the thread of the
\* other call goes on (samples.py lines 26-27 and 387-406: one analyzer for
\* all requests, sync endpoints run in a thread pool). Each thread has its own
\* locals; nothing else is exchanged.
Switch ==
    /\ parked' = Frame
    /\ op' = parked.op
    /\ pc' = parked.pc
    /\ file' = parked.file
    /\ calls' = parked.calls
    /\ info' = parked.info
    /\ validation' = parked.validation
    /\ features' = parked.features
    /\ failed' = parked.failed
    /\ inflight' = parked.inflight
    /\ loaded' = parked.loaded
    /\ loaderExc' = parked.loaderExc
    /\ ret' = parked.ret
    /\ exc' = parked.exc
    /\ arg_category' = parked.arg_category
    /\ measured' = parked.measured
    /\ UNCHANGED <<config, api>>

\* The files of the two-call runs: a tone, silence, and an unsupported name.
SharedFiles ==
    {f \in Files : f.name \in { <<"a",".","W","A","V">>, <<"c",".","o","g","g">>,
                                <<"d",".","t","x","t">> }}

\* The computations that may raise in the two-call runs.
SharedFailures == {"harmonic", "centroid"}

\* The step A in a two-call run.
Within(A) == A /\ failed' \subseteq SharedFailures

CallAnalyzeShared ==
    /\ pc = "idle"
    /\ \E f \in SharedFiles : Begin("analyze_sample", f, "load_checks")

CallValidateShared ==
    /\ pc = "idle"
    /\ \E f \in SharedFiles : Begin("validate_audio_file", f, "val_checks")

InfoSteps ==
    \/ InfoInit
    \/ InfoLibrosa
    \/ InfoDuration
    \/ InfoPydub

ValidateSteps ==
    \/ ValChecks
    \/ ValFormat
    \/ ValLoaded
    \/ ValLoadFailed
    \/ ValExcept

NextShared ==
    \/ CallAnalyzeShared
    \/ CallValidateShared
    \/ LoadSteps
    \/ InfoSteps
    \/ ValidateSteps
    \/ Within(AnalyzeSteps)
    \/ Switch
    \/ Finish

SpecShared == Init /\ [][NextShared]_vars

----------------------------------------------------------------------------
(* Properties: repeated and concurrent calls                               *)

\* The call with locals fr is an analyze_sample that has returned a record.
Analyzed(fr) ==
    fr.op = "analyze_sample" /\ fr.pc = "done" /\ fr.exc = NoExc /\ fr.ret.kind = "features"

ClassificationKeys == {"category", "tags", "mood", "intensity", "genre"}

\* The record d without the classifier's keys, and its classifier's keys.
Extracted(d) == [k \in DOMAIN d \ ClassificationKeys |-> d[k]]
Classified(d) == [k \in ClassificationKeys |-> d[k]]

SoloFeatures(f, ld, F) ==
    LET m == Measure(f.sig)
        e0 == Update(EmptyDict, ExtractBasicProperties(ld.audio, ld.sr))
        e1 == Update(e0, ExtractMusicalFeatures(m, F))
        e2 == Update(e1, ExtractSpectralFeatures(m, ld.audio, F))
        e3 == Update(e2, ExtractRhythmicFeatures(m, F))
        e4 == Update(e3, ExtractHarmonicFeatures(m, F))
    IN  Update(e4, ExtractPerceptualFeatures(m, F))

\* The waveform ld is a decode of the file f at the rate of the analyzer.
DecodeOf(f, ld) ==
    /\ ld.sr = 22050
    /\ ld.audio.len = ResampledLen(f.frames, f.native_sr, 22050)
    /\ ld.audio.peak = Peak(f.sig)

\* The finished call with locals fr has the outcome it has when it runs alone
\* on its file with the same answers of the backends.
SoloOutcome(fr) ==
    /\ (fr.op = "analyze_sample" /\ fr.loaded = NotLoaded) =>
          fr.exc = WrapLoadError(fr.loaderExc)
    /\ (fr.op = "analyze_sample" /\ fr.loaded # NotLoaded) =>
          LET e == SoloFeatures(fr.file, fr.loaded, fr.failed)
              c == ClassifySample(e)
          IN  /\ DecodeOf(fr.file, fr.loaded)
              /\ IF c.raised THEN fr.exc.type = "TypeError"
                 ELSE fr.exc = NoExc /\ fr.ret.features = Update(e, c.value)
    /\ (fr.op = "validate_audio_file") =>
          /\ fr.exc = NoExc
          /\ fr.ret.validation.loadable <=> fr.loaded # NotLoaded
          /\ fr.loaded # NotLoaded => DecodeOf(fr.file, fr.loaded)
          /\ fr.ret.validation.info # EmptyDict =>
                /\ fr.ret.validation.info.file_path = fr.file.name
                /\ fr.ret.validation.info.file_size_bytes = fr.file.size
                /\ fr.ret.validation.info.sample_rate \in {None, Num(fr.file.native_sr)}

-----------------------------------------------------------------------------
(* api/auth.py: users, bearer tokens and their revocation                   *)

\* How many tokens create_access_token hands out in one behaviour.
MaxTokens == 2

\* The last instant of the clock.
MaxTime == 3

\* ACCESS_TOKEN_EXPIRE_MINUTES, in ticks of the clock.
TokenLifetime == 2

\* The locals of the audio engine, which no endpoint of auth.py touches.
engine == <<op, pc, file, calls, info, validation, features, failed,
            inflight, loaded, loaderExc, ret, exc, arg_category, measured, parked>>

\* The tables and files the endpoints of auth.py leave alone.
tables == <<tracks, samples, generated_audio, disk>>

Emails == {"testuser@example.com", "authuser@example.com"}

Passwords == {"testpassword", "securepassword"}

\* A string that was not signed with SECRET_KEY.
Forged == [sub |-> "testuser@example.com", jti |-> 0, exp |-> MaxTime + 1,
           signed |-> FALSE]

\* What a client can put in the Authorization header.
Headers == {NoHeader} \cup issued \cup {Forged}

\* db.query(User).filter(User.email == email).first()
get_user_by_email(email) == {u \in users : u.email = email}

\* jwt.decode: JWTError for a bad signature and for an expired token,
\* the payload otherwise.
JwtDecode(token) ==
    IF ~token.signed \/ now >= token.exp
    THEN [raised |-> TRUE]
    ELSE [raised |-> FALSE, sub |-> token.sub, jti |-> token.jti, exp |-> token.exp]

\* security.decode_token: None for a JWTError, the token's email otherwise.
decode_token(token) ==
    IF JwtDecode(token).raised THEN None ELSE Str(token.sub)

Rejected(detail) == [status |-> 401, detail |-> detail]

\* get_current_user without its query of the revoked_tokens table.
GetCurrentUserIgnoresRevocation(token) ==
    LET payload == JwtDecode(token) IN
    IF payload.raised THEN Rejected("Could not validate credentials")
    ELSE IF get_user_by_email(payload.sub) = {}
    THEN Rejected("Could not validate credentials")
    ELSE [status |-> 200, detail |-> ""]

\* get_current_user: the status it answers with. Every token that decodes
\* was made by create_access_token and carries a sub.
get_current_user(token) ==
    LET payload == JwtDecode(token) IN
    IF payload.raised THEN Rejected("Could not validate credentials")
    ELSE IF payload.jti \in revoked_tokens THEN Rejected("Token has been revoked")
    ELSE IF get_user_by_email(payload.sub) = {}
    THEN Rejected("Could not validate credentials")
    ELSE [status |-> 200, detail |-> ""]

Respond(endpoint, token, status, detail) ==
    response' = [endpoint |-> endpoint, token |-> token,
                 status |-> status, detail |-> detail]

\* The test_user fixture: a row added to the users table directly.
TestUser ==
    /\ \E email \in Emails :
        /\ get_user_by_email(email) = {}
        /\ users' = users \cup {[id |-> Cardinality(users) + 1, email |-> email,
                                 hashed_password |-> "testpassword"]}
    /\ UNCHANGED <<engine, config, tables, revoked_tokens, issued, now, response, logged_out>>

\* POST /auth/register. UserCreate has no first_name, so building the User
\* of a new email raises AttributeError before anything is added.
Register ==
    /\ \E email \in Emails :
        IF get_user_by_email(email) # {}
        THEN Respond("/auth/register", NoHeader, 400, "email already taken")
        ELSE Respond("/auth/register", NoHeader, 500, "AttributeError")
    /\ UNCHANGED <<engine, config, tables, users, revoked_tokens, issued, now, logged_out>>

\* create_access_token: a fresh jti and an expiry TokenLifetime from now.
create_access_token(sub) ==
    [sub |-> sub, jti |-> Cardinality(issued) + 1, exp |-> now + TokenLifetime,
     signed |-> TRUE]

\* POST /auth/login
Login ==
    /\ \E email \in Emails, password \in Passwords :
        LET user == get_user_by_email(email) IN
        IF user = {} \/ \A u \in user : u.hashed_password # password
        THEN /\ Respond("/auth/login", NoHeader, 401, "Invalid credentials")
             /\ UNCHANGED issued
        ELSE /\ Cardinality(issued) < MaxTokens
             /\ issued' = issued \cup {create_access_token(email)}
             /\ Respond("/auth/login", create_access_token(email), 200, "")
    /\ UNCHANGED <<engine, config, tables, users, revoked_tokens, now, logged_out>>

\* POST /auth/logout. A missing header, a token that does not decode and a
\* jti that is already in the table (the column is unique) are not handled.
Logout ==
    /\ \E token \in Headers :
        IF token = NoHeader
        THEN /\ Respond("/auth/logout", token, 500, "AttributeError")
             /\ UNCHANGED <<revoked_tokens, logged_out>>
        ELSE IF JwtDecode(token).raised
        THEN /\ Respond("/auth/logout", token, 500, "JWTError")
             /\ UNCHANGED <<revoked_tokens, logged_out>>
        ELSE IF token.jti \in revoked_tokens
        THEN /\ Respond("/auth/logout", token, 500, "IntegrityError")
             /\ UNCHANGED <<revoked_tokens, logged_out>>
        ELSE /\ revoked_tokens' = revoked_tokens \cup {token.jti}
             /\ logged_out' = logged_out \cup {token}
             /\ Respond("/auth/logout", token, 200, "Successfully logged out")
    /\ UNCHANGED <<engine, config, tables, users, issued, now>>

\* GET /auth/me
ReadUsersMe ==
    /\ \E token \in Headers :
        IF token = NoHeader
        THEN Respond("/auth/me", token, 401, "Not authenticated")
        ELSE IF decode_token(token) = None
        THEN Respond("/auth/me", token, 401, "Invalid token")
        ELSE Respond("/auth/me", token, 200, "")
    /\ UNCHANGED <<engine, config, tables, users, revoked_tokens, issued, now, logged_out>>

\* GET /auth/user
GetUser ==
    /\ \E token \in Headers :
        IF token = NoHeader
        THEN Respond("/auth/user", token, 401, "Not authenticated")
        ELSE Respond("/auth/user", token, get_current_user(token).status,
                     get_current_user(token).detail)
    /\ UNCHANGED <<engine, config, tables, users, revoked_tokens, issued, now, logged_out>>

\* datetime.now moves on.
Tick ==
    /\ now < MaxTime
    /\ now' = now + 1
    /\ UNCHANGED <<engine, config, tables, users, revoked_tokens, issued, response, logged_out>>

NextAuth ==
    \/ TestUser
    \/ Register
    \/ Login
    \/ Logout
    \/ ReadUsersMe
    \/ GetUser
    \/ Tick

\* A server on which the imports of librosa and of pydub succeeded.
InitAuth == Init /\ LIBROSA_AVAILABLE /\ PYDUB_AVAILABLE

SpecAuth == InitAuth /\ [][NextAuth]_vars

-----------------------------------------------------------------------------
(* Properties: revocation                                                   *)

\* C20: once logout has succeeded for a token, its jti stays in the
\* revoked_tokens table and get_current_user rejects the token with 401 in
\* every later state, whatever has happened since; so does GET /auth/user.
C20_RevokedStaysRejected ==
    /\ \A token \in logged_out :
        /\ token.jti \in revoked_tokens
        /\ get_current_user(token).status = 401
    /\ (response.endpoint = "/auth/user" /\ response.token \in logged_out)
        => response.status = 401

\* A logged-out token that has not expired and whose user exists is
\* presented to GET /auth/user and refused as revoked.
C20_Witness ==
    /\ response.endpoint = "/auth/user"
    /\ response.token \in logged_out
    /\ now < response.token.exp
    /\ get_user_by_email(response.token.sub) # {}
    /\ response.status = 401
    /\ response.detail = "Token has been revoked"

\* C27: a request that carries a logged-out token is answered 401 by
\* GET /auth/me as it is by GET /auth/user.
C27_AsClaimed ==
    (response.endpoint \in {"/auth/me", "/auth/user"} /\ response.token \in logged_out)
        => response.status = 401

-----------------------------------------------------------------------------
(* Properties: the validation report                                        *)

\* C29: in every report validate_audio_file returns, is_valid equals
\* loadable, and a report with is_valid = true has an empty errors list.
C29_ValidIffLoadable ==
    (op = "validate_audio_file" /\ pc = "done" /\ ret.kind = "validation") =>
        /\ ret.validation.is_valid = ret.validation.loadable
        /\ ret.validation.is_valid => ret.validation.errors = <<>>

\* A report of a file that loaded, with a warning and no error.
C29_Witness ==
    /\ op = "validate_audio_file" /\ pc = "done"
    /\ ret.kind = "validation"
    /\ ret.validation.is_valid /\ ret.validation.loadable
    /\ ret.validation.warnings # <<>>
    /\ ret.validation.errors = <<>>

\* A report of a file on which every strategy failed.
C29_WitnessInvalid ==
    /\ op = "validate_audio_file" /\ pc = "done"
    /\ ret.kind = "validation"
    /\ ~ret.validation.is_valid /\ ~ret.validation.loadable
    /\ loaderExc = Exhausted

-----------------------------------------------------------------------------
(* Properties: the ambient category                                         *)

\* C30: for every feature record, when _determine_category gives ambient,
\* the tags _extract_tags returns contain quiet and not loud, the mood
\* _determine_mood returns is neither bright nor energetic, and the genre is
\* ambient; so it is in every classification _classify_sample returns.
C30_AmbientIsQuiet ==
    (op = "_classify_sample" /\ pc = "done") =>
        /\ DetermineCategory(features) = Ok("ambient") =>
              LET tags == ExtractTags(features, "ambient")
                  mood == DetermineMood(features)
              IN  /\ ~tags.raised =>
                        (InList("quiet", tags.value) /\ ~InList("loud", tags.value))
                  /\ ~mood.raised => mood.value \notin {"bright", "energetic"}
                  /\ DetermineGenre(features, "ambient") = Ok("ambient")
        /\ (exc = NoExc /\ ret.value.category = Str("ambient")) =>
              /\ InList("quiet", ret.value.tags)
              /\ ~InList("loud", ret.value.tags)
              /\ ret.value.mood \notin {Str("bright"), Str("energetic")}
              /\ ret.value.genre = Str("ambient")

\* _classify_sample has returned an ambient classification for a bright,
\* complex record.
C30_Witness ==
    /\ op = "_classify_sample" /\ pc = "done" /\ exc = NoExc
    /\ ret.value.category = Str("ambient")
    /\ ret.value.genre = Str("ambient")
    /\ ret.value.mood = Str("mysterious")
    /\ InList("quiet", ret.value.tags)
    /\ InList("bright", ret.value.tags)

-----------------------------------------------------------------------------
(* Properties: the time signature of extract_audio_features                 *)

\* librosa's default hop: a beat frame is this many samples long.
HopLength == 512

\* Mean interval between consecutive beats in milliseconds, for beat frames
\* at the sample rate sr.
MeanBeatIntervalMs(beats, sr) ==
    ((beats[Len(beats)] - beats[1]) * HopLength * 1000) \div (sr * (Len(beats) - 1))

\* C23 as claimed: time_signature is 4 for a mean beat interval below 0.5
\* seconds, 3 from 0.5 to below 0.75 seconds, 6 otherwise, and 4 when fewer
\* than two beats were detected.
C23_AsClaimed ==
    (op = "extract_audio_features" /\ pc = "done" /\ exc = NoExc) =>
        ret.features.time_signature =
            IF Len(measured.beats) < 2 THEN Num(4)
            ELSE IF MeanBeatIntervalMs(measured.beats, loaded.sr) < 500 THEN Num(4)
            ELSE IF MeanBeatIntervalMs(measured.beats, loaded.sr) < 750 THEN Num(3)
            ELSE Num(6)

-----------------------------------------------------------------------------
(* AudioLoader._load_with_pydub: from the segment's samples to the floats   *)

\* The widths in bytes of the segments AudioSegment.from_file builds.
SampleWidths == {1, 2, 4}

\* 2^n
RECURSIVE Pow2(_)
Pow2(n) == IF n = 0 THEN 1 ELSE 2 * Pow2(n - 1)

\* The smallest and the largest sample of a width, and values in between.
RawSamples(sample_width) ==
    LET top == Pow2(8 * sample_width - 2)
    IN  {0 - top - top, 0 - top, -1, 0, 1, top, (top - 1) + top}

\* The segment after set_channels and set_frame_rate: its width and what
\* get_array_of_samples returns.
Segments ==
    UNION { { [sample_width |-> w, samples |-> <<a>>] : a \in RawSamples(w) }
            \cup { [sample_width |-> w, samples |-> <<a, b>>] :
                      a \in {0, 1}, b \in RawSamples(w) } :
            w \in SampleWidths }

\* np.float32 of an integer: m * 2^e. Integers up to 2^24 are kept; from 2^30
\* to 2^31 the float32 values are 128 apart and the nearest one is taken.
Float32(s) ==
    LET a == IF s < 0 THEN 0 - (s + 1) ELSE s
    IN  IF a < Pow2(24) THEN [m |-> s, e |-> 0]
        ELSE [m |-> s \div 128 + (IF s % 128 >= 64 THEN 1 ELSE 0), e |-> 7]

\* Mutant: every segment is taken for 16-bit.
DivisorAlways16Bit(sample_width) == 15

\* lines 110-115: the divisor 32768.0, 2147483648.0 or 128.0, as the power of
\* two it is.
Divisor(sample_width) ==
    IF sample_width = 2 THEN 15
    ELSE IF sample_width = 4 THEN 31
    ELSE 7

\* lines 107-115: samples / divisor, a float m * 2^e.
Normalize(seg) ==
    [i \in 1..Len(seg.samples) |->
        [m |-> Float32(seg.samples[i]).m,
         e |-> Float32(seg.samples[i]).e - Divisor(seg.sample_width)]]

\* _load_with_pydub has its segment at the target rate, in mono.
CallNormalize ==
    /\ pc = "idle"
    /\ \E seg \in Segments : measured' = seg
    /\ op' = "_load_with_pydub"
    /\ pc' = "normalize"
    /\ UNCHANGED <<config, api, arg_category, parked, file, calls, info, validation, features,
                   failed, inflight, loaded, loaderExc, ret, exc>>

\* lines 107-117
RunNormalize ==
    /\ pc = "normalize"
    /\ pc' = "done"
    /\ ret' = [kind |-> "samples", samples |-> Normalize(measured),
               sr |-> target_sample_rate]
    /\ exc' = NoExc
    /\ UNCHANGED <<elsewhere, config, op, file, calls, info, validation, features, failed,
                   inflight, loaded, loaderExc>>

NextPydub ==
    \/ CallNormalize
    \/ RunNormalize
    \/ Finish

SpecPydub == Init /\ [][NextPydub]_vars

-----------------------------------------------------------------------------
(* Properties: the normalisation of pydub's samples                         *)

\* |m * 2^e| <= 1
InUnitRange(x) ==
    LET a == IF x.m < 0 THEN 0 - x.m ELSE x.m
    IN  IF x.e >= 0 THEN a * Pow2(x.e) <= 1
        ELSE IF 0 - x.e >= 31 THEN TRUE
        ELSE a <= Pow2(0 - x.e)

\* C22: for a segment of width 1, 2 or 4 bytes, _load_with_pydub divides by
\* 128, 32768 and 2^31, and every sample it returns lies in [-1, 1].
C22_NormalizedToUnitRange ==
    (op = "_load_with_pydub" /\ pc = "done") =>
        /\ Divisor(measured.sample_width) =
              (CASE measured.sample_width = 2 -> 15
                 [] measured.sample_width = 4 -> 31
                 [] OTHER -> 7)
        /\ Len(ret.samples) = Len(measured.samples)
        /\ \A i \in 1..Len(ret.samples) : InUnitRange(ret.samples[i])

\* The largest 4-byte sample, which float32 rounds up to 2^31, came out as 1.0.
C22_Witness ==
    /\ op = "_load_with_pydub" /\ pc = "done"
    /\ measured.sample_width = 4
    /\ measured.samples = <<2147483647>>
    /\ ret.samples[1] = [m |-> 16777216, e |-> -24]

-----------------------------------------------------------------------------
(* api/upload.py and api/tracks.py: the tracks of a user                    *)

\* How many track ids there are.
MaxTracks == 2

TrackIds == 1..MaxTracks

\* Depends(get_current_user) behind oauth2_scheme: the 401 of a request
\* without a header, get_current_user's answer otherwise.
Authenticate(token) ==
    IF token = NoHeader THEN Rejected("Not authenticated") ELSE get_current_user(token)

\* The user get_current_user returns for a token it accepts.
current_user(token) == CHOOSE u \in users : u.email = token.sub

\* A response of an endpoint that addresses one row: its id and the row sent
\* back, None when none was.
Answer(endpoint, token, id, status, detail, row) ==
    response' = [endpoint |-> endpoint, token |-> token, status |-> status,
                 detail |-> detail, id |-> id, row |-> row]

\* POST /upload, upload.py lines 17-75. The content type of the upload and
\* what analyze_audio returns for it are the client's and the analyser's; the
\* database hands out an id that no row has.
UploadAudio ==
    /\ \E token \in Headers, o \in {"unsupported", "not analysed", "ok"} :
        IF Authenticate(token).status = 401
        THEN /\ Answer("POST /upload", token, 0, 401, Authenticate(token).detail, None)
             /\ UNCHANGED tracks
        ELSE IF o = "unsupported"
        THEN /\ Answer("POST /upload", token, 0, 400, "Unsupported file type", None)
             /\ UNCHANGED tracks
        ELSE IF o = "not analysed"
        THEN /\ Answer("POST /upload", token, 0, 400, "Failed to analyze audio file", None)
             /\ UNCHANGED tracks
        ELSE \E id \in TrackIds :
                /\ \A t \in tracks : t.id # id
                /\ LET track == [id |-> id, user_id |-> current_user(token).id,
                                 filename |-> "test.wav", content_type |-> "audio/wav",
                                 file_path |-> Str("/tmp/audio_uploads/test.wav")]
                   IN  /\ tracks' = tracks \cup {track}
                       /\ Answer("POST /upload", token, id, 200, "", track)
    /\ UNCHANGED <<engine, config, users, revoked_tokens, issued, now, logged_out,
                   samples, generated_audio, disk>>

\* Mutant: the query looks the track up by its id alone.
FindTrackOfAnyUser(track_id, user) == {t \in tracks : t.id = track_id}

\* db.query(Track).filter(Track.id == track_id,
\*                        Track.user_id == current_user.id).first()
FindTrack(track_id, user) == {t \in tracks : t.id = track_id /\ t.user_id = user.id}

\* GET /tracks, lines 15-20
GetTracks ==
    /\ \E token \in Headers :
        IF Authenticate(token).status = 401
        THEN Answer("GET /tracks", token, 0, 401, Authenticate(token).detail, None)
        ELSE Answer("GET /tracks", token, 0, 200, "",
                    {t \in tracks : t.user_id = current_user(token).id})
    /\ UNCHANGED <<engine, config, users, revoked_tokens, issued, now, logged_out, tables>>

\* GET /tracks/{track_id}, lines 23-33
GetTrack ==
    /\ \E token \in Headers, track_id \in TrackIds :
        IF Authenticate(token).status = 401
        THEN Answer("GET /tracks/{track_id}", token, track_id, 401,
                    Authenticate(token).detail, None)
        ELSE LET track == FindTrack(track_id, current_user(token))
             IN  IF track = {}
                 THEN Answer("GET /tracks/{track_id}", token, track_id, 404,
                             "Track not found", None)
                 ELSE Answer("GET /tracks/{track_id}", token, track_id, 200, "",
                             CHOOSE t \in track : TRUE)
    /\ UNCHANGED <<engine, config, users, revoked_tokens, issued, now, logged_out, tables>>

\* A field the request body does not carry.
Unset == [tag |-> "unset", v |-> 0]

\* The TrackOut bodies a client sends: id, filename and content_type are
\* required; file_path stands for the optional fields, absent or null.
TrackBodies ==
    { [id |-> i, filename |-> "test.wav", content_type |-> "audio/wav", file_path |-> p] :
        i \in TrackIds, p \in {Unset, None} }

\* lines 48-49: setattr for every field the body set.
SetAttrs(existing_track, body) ==
    [existing_track EXCEPT
        !.id = body.id,
        !.filename = body.filename,
        !.content_type = body.content_type,
        !.file_path = IF body.file_path = Unset THEN @ ELSE body.file_path]

\* PUT /tracks/{track_id}, lines 36-53. The commit fails on the primary key
\* when another row has the new id already.
UpdateTrack ==
    /\ \E token \in Headers, track_id \in TrackIds, body \in TrackBodies :
        IF Authenticate(token).status = 401
        THEN /\ Answer("PUT /tracks/{track_id}", token, track_id, 401,
                       Authenticate(token).detail, None)
             /\ UNCHANGED tracks
        ELSE LET found == FindTrack(track_id, current_user(token))
             IN  IF found = {}
                 THEN /\ Answer("PUT /tracks/{track_id}", token, track_id, 404,
                                "Track not found", None)
                      /\ UNCHANGED tracks
                 ELSE LET existing_track == CHOOSE t \in found : TRUE
                          updated == SetAttrs(existing_track, body)
                      IN  IF \E t \in tracks \ {existing_track} : t.id = updated.id
                          THEN /\ Answer("PUT /tracks/{track_id}", token, track_id, 500,
                                         "IntegrityError", None)
                               /\ UNCHANGED tracks
                          ELSE /\ tracks' = (tracks \ {existing_track}) \cup {updated}
                               /\ Answer("PUT /tracks/{track_id}", token, track_id, 200,
                                         "", updated)
    /\ UNCHANGED <<engine, config, users, revoked_tokens, issued, now, logged_out,
                   samples, generated_audio, disk>>

\* DELETE /tracks/{track_id}, lines 56-69
DeleteTrack ==
    /\ \E token \in Headers, track_id \in TrackIds :
        IF Authenticate(token).status = 401
        THEN /\ Answer("DELETE /tracks/{track_id}", token, track_id, 401,
                       Authenticate(token).detail, None)
             /\ UNCHANGED tracks
        ELSE LET track == FindTrack(track_id, current_user(token))
             IN  IF track = {}
                 THEN /\ Answer("DELETE /tracks/{track_id}", token, track_id, 404,
                                "Track not found", None)
                      /\ UNCHANGED tracks
                 ELSE /\ tracks' = tracks \ track
                      /\ Answer("DELETE /tracks/{track_id}", token, track_id, 200, "",
                                CHOOSE t \in track : TRUE)
    /\ UNCHANGED <<engine, config, users, revoked_tokens, issued, now, logged_out,
                   samples, generated_audio, disk>>

\* GET /tracks/{track_id}/stream, lines 72-122. Every row has a content
\* type; whether the uploaded file is still in /tmp/audio_uploads is the
\* environment's answer.
StreamTrack ==
    /\ \E token \in Headers, track_id \in TrackIds, on_disk \in BOOLEAN :
        IF Authenticate(token).status = 401
        THEN Answer("GET /tracks/{track_id}/stream", token, track_id, 401,
                    Authenticate(token).detail, None)
        ELSE LET found == FindTrack(track_id, current_user(token))
                 track == CHOOSE t \in found : TRUE
             IN  IF found = {}
                 THEN Answer("GET /tracks/{track_id}/stream", token, track_id, 404,
                             "Track not found", None)
                 ELSE IF track.file_path = None
                 THEN Answer("GET /tracks/{track_id}/stream", token, track_id, 404,
                             "Track file not found", None)
                 ELSE IF ~on_disk
                 THEN Answer("GET /tracks/{track_id}/stream", token, track_id, 404,
                             "Audio file not found on disk", None)
                 ELSE Answer("GET /tracks/{track_id}/stream", token, track_id, 200, "",
                             track)
    /\ UNCHANGED <<engine, config, users, revoked_tokens, issued, now, logged_out, tables>>

NextTracks ==
    \/ TestUser
    \/ Login
    \/ Logout
    \/ UploadAudio
    \/ GetTracks
    \/ GetTrack
    \/ UpdateTrack
    \/ DeleteTrack
    \/ StreamTrack

SpecTracks == InitAuth /\ [][NextTracks]_vars

-----------------------------------------------------------------------------
(* Properties: the tracks of a user                                         *)

\* The four operations on one track.
TrackOperations ==
    {"GET /tracks/{track_id}", "PUT /tracks/{track_id}", "DELETE /tracks/{track_id}",
     "GET /tracks/{track_id}/stream"}

\* The token is one create_access_token made, not expired, not revoked, of a
\* user that exists.
ValidToken(token) ==
    /\ token \in issued
    /\ now < token.exp
    /\ token.jti \notin revoked_tokens
    /\ \E u \in users : u.email = token.sub

\* The user's own track of that id, if there is one.
OwnTrack(token, track_id) ==
    {t \in tracks : t.id = track_id /\ \E u \in users : u.email = token.sub /\ u.id = t.user_id}

\* C21: a get, update, delete or stream request without a valid token is
\* answered 401, and one of an authenticated user for a track id that does
\* not exist or belongs to another user is answered 404 'Track not found';
\* in both cases no track is sent back, changed or deleted.
C21_TracksGuarded ==
    [][(response' # response /\ response'.endpoint \in TrackOperations) =>
            /\ ~ValidToken(response'.token) =>
                  /\ response'.status = 401
                  /\ response'.row = None
                  /\ tracks' = tracks
            /\ (ValidToken(response'.token) /\ OwnTrack(response'.token, response'.id) = {}) =>
                  /\ response'.status = 404
                  /\ response'.detail = "Track not found"
                  /\ response'.row = None
                  /\ tracks' = tracks]_vars

\* A user has asked to delete a track that exists and belongs to the other
\* user, and was answered 404.
C21_Witness ==
    /\ response.endpoint = "DELETE /tracks/{track_id}"
    /\ ValidToken(response.token)
    /\ \E t \in tracks : t.id = response.id
    /\ OwnTrack(response.token, response.id) = {}
    /\ response.status = 404
    /\ response.detail = "Track not found"

\* A request with a revoked token was answered 401.
C21_WitnessRevoked ==
    /\ response.endpoint = "PUT /tracks/{track_id}"
    /\ response.token \in logged_out
    /\ \E t \in tracks : t.id = response.id
    /\ response.status = 401

\* C28 as claimed: update_track leaves the addressed track's id and user_id
\* as they were and modifies no other track, whatever the body carries.
C28_AsClaimed ==
    [][(response' # response /\ response'.endpoint = "PUT /tracks/{track_id}") =>
            /\ \A t \in tracks : t.id # response'.id => t \in tracks'
            /\ \A t \in tracks : t.id = response'.id =>
                  \E u \in tracks' : u.id = t.id /\ u.user_id = t.user_id
            /\ Cardinality(tracks') = Cardinality(tracks)]_vars

-----------------------------------------------------------------------------
(* api/generated_audio.py: generation requests and their status             *)

\* How many generation requests are made.
MaxGenerated == 2

GeneratedIds == 1..MaxGenerated

\* db.query(GeneratedAudio).filter(GeneratedAudio.id == generated_id,
\*                                 GeneratedAudio.user_id == current_user.id).first()
\* The file the generation service writes for a request.
GeneratedFile(id) == "/tmp/generated_audio/" \o ToString(id) \o ".wav"

FindGenerated(generated_id, user) ==
    {g \in generated_audio : g.id = generated_id /\ g.user_id = user.id}

\* One row replaced by another.
Replace(old, new) == generated_audio' = (generated_audio \ {old}) \cup {new}

\* POST /generated-audio, lines 26-75. Whether the request names a project of
\* the user is the client's choice.
RequestGeneration ==
    /\ \E token \in Headers, own_project \in BOOLEAN :
        IF Authenticate(token).status = 401
        THEN /\ Answer("POST /generated-audio", token, 0, 401,
                       Authenticate(token).detail, None)
             /\ UNCHANGED generated_audio
        ELSE IF ~own_project
        THEN /\ Answer("POST /generated-audio", token, 0, 404, "Project not found", None)
             /\ UNCHANGED generated_audio
        ELSE \E id \in GeneratedIds :
                /\ \A g \in generated_audio : g.id # id
                /\ LET row == [id |-> id, user_id |-> current_user(token).id,
                               name |-> "Generated Audio",
                               generation_status |-> "pending",
                               generation_error |-> None,
                               file_path |-> ""]
                   IN  /\ generated_audio' = generated_audio \cup {row}
                       /\ Answer("POST /generated-audio", token, id, 200, "", row)
    /\ UNCHANGED <<engine, config, users, revoked_tokens, issued, now, logged_out,
                   tracks, samples, disk>>

\* The generation service the TODO of lines 64-68 describes: it takes a
\* pending request, and ends it completed, with its file, or failed, with an
\* error. It is not part of this program.
GenerationService ==
    /\ \E g \in generated_audio :
        \/ /\ g.generation_status = "pending"
           /\ Replace(g, [g EXCEPT !.generation_status = "processing"])
           /\ UNCHANGED disk
        \/ /\ g.generation_status = "processing"
           /\ Replace(g, [g EXCEPT !.generation_status = "completed",
                                   !.file_path = GeneratedFile(g.id)])
           /\ disk' = disk \cup {GeneratedFile(g.id)}
        \/ /\ g.generation_status = "processing"
           /\ Replace(g, [g EXCEPT !.generation_status = "failed",
                                   !.generation_error = Str("generation failed")])
           /\ UNCHANGED disk
    /\ UNCHANGED <<engine, config, users, revoked_tokens, issued, now, logged_out,
                   response, tracks, samples>>

\* PUT /generated-audio/{generated_id}, lines 209-236: GeneratedAudioUpdate
\* carries name, description, tags, mood and genre; name stands for them.
UpdateGeneratedAudio ==
    /\ \E token \in Headers, generated_id \in GeneratedIds :
        IF Authenticate(token).status = 401
        THEN /\ Answer("PUT /generated-audio/{generated_id}", token, generated_id, 401,
                       Authenticate(token).detail, None)
             /\ UNCHANGED generated_audio
        ELSE LET found == FindGenerated(generated_id, current_user(token))
                 g == CHOOSE x \in found : TRUE
             IN  IF found = {}
                 THEN /\ Answer("PUT /generated-audio/{generated_id}", token, generated_id,
                                404, "Generated audio not found", None)
                      /\ UNCHANGED generated_audio
                 ELSE /\ Replace(g, [g EXCEPT !.name = "renamed"])
                      /\ Answer("PUT /generated-audio/{generated_id}", token, generated_id,
                                200, "", [g EXCEPT !.name = "renamed"])
    /\ UNCHANGED <<engine, config, users, revoked_tokens, issued, now, logged_out,
                   tracks, samples, disk>>

\* DELETE /generated-audio/{generated_id}, lines 239-268
DeleteGeneratedAudio ==
    /\ \E token \in Headers, generated_id \in GeneratedIds :
        IF Authenticate(token).status = 401
        THEN /\ Answer("DELETE /generated-audio/{generated_id}", token, generated_id, 401,
                       Authenticate(token).detail, None)
             /\ UNCHANGED <<generated_audio, disk>>
        ELSE LET found == FindGenerated(generated_id, current_user(token))
                 g == CHOOSE x \in found : TRUE
             IN  IF found = {}
                 THEN /\ Answer("DELETE /generated-audio/{generated_id}", token,
                                generated_id, 404, "Generated audio not found", None)
                      /\ UNCHANGED <<generated_audio, disk>>
                 ELSE /\ disk' = disk \ {g.file_path}
                      /\ generated_audio' = generated_audio \ {g}
                      /\ Answer("DELETE /generated-audio/{generated_id}", token,
                                generated_id, 200, "Generated audio deleted successfully",
                                None)
    /\ UNCHANGED <<engine, config, users, revoked_tokens, issued, now, logged_out,
                   tracks, samples>>

\* GET /generated-audio/{generated_id}/stream, lines 330-364
StreamGeneratedAudio ==
    /\ \E token \in Headers, generated_id \in GeneratedIds :
        IF Authenticate(token).status = 401
        THEN Answer("GET /generated-audio/{generated_id}/stream", token, generated_id, 401,
                    Authenticate(token).detail, None)
        ELSE LET found == FindGenerated(generated_id, current_user(token))
                 g == CHOOSE x \in found : TRUE
             IN  IF found = {}
                 THEN Answer("GET /generated-audio/{generated_id}/stream", token,
                             generated_id, 404, "Generated audio not found", None)
                 ELSE IF g.generation_status # "completed"
                 THEN Answer("GET /generated-audio/{generated_id}/stream", token,
                             generated_id, 400, "Audio generation not completed", None)
                 ELSE IF g.file_path \notin disk
                 THEN Answer("GET /generated-audio/{generated_id}/stream", token,
                             generated_id, 404, "Generated audio file not found", None)
                 ELSE Answer("GET /generated-audio/{generated_id}/stream", token,
                             generated_id, 200, "", g)
    /\ UNCHANGED <<engine, config, users, revoked_tokens, issued, now, logged_out, tables>>

\* Mutant: every generation that has not completed can be retried.
RetryableUnlessCompleted(generation_status) == generation_status # "completed"

\* line 410
Retryable(generation_status) == generation_status \in {"failed", "cancelled"}

\* POST /generated-audio/{generated_id}/retry, lines 393-426
RetryGeneration ==
    /\ \E token \in Headers, generated_id \in GeneratedIds :
        IF Authenticate(token).status = 401
        THEN /\ Answer("POST /generated-audio/{generated_id}/retry", token, generated_id,
                       401, Authenticate(token).detail, None)
             /\ UNCHANGED generated_audio
        ELSE LET found == FindGenerated(generated_id, current_user(token))
                 g == CHOOSE x \in found : TRUE
             IN  IF found = {}
                 THEN /\ Answer("POST /generated-audio/{generated_id}/retry", token,
                                generated_id, 404, "Generated audio not found", None)
                      /\ UNCHANGED generated_audio
                 ELSE IF ~Retryable(g.generation_status)
                 THEN /\ Answer("POST /generated-audio/{generated_id}/retry", token,
                                generated_id, 400,
                                "Can only retry failed or cancelled generations", None)
                      /\ UNCHANGED generated_audio
                 ELSE /\ Replace(g, [g EXCEPT !.generation_status = "pending",
                                             !.generation_error = None])
                      /\ Answer("POST /generated-audio/{generated_id}/retry", token,
                                generated_id, 200, "Generation retry initiated", None)
    /\ UNCHANGED <<engine, config, users, revoked_tokens, issued, now, logged_out,
                   tracks, samples, disk>>

\* line 446
Cancellable(generation_status) == generation_status \in {"pending", "processing"}

\* POST /generated-audio/{generated_id}/cancel, lines 429-461
CancelGeneration ==
    /\ \E token \in Headers, generated_id \in GeneratedIds :
        IF Authenticate(token).status = 401
        THEN /\ Answer("POST /generated-audio/{generated_id}/cancel", token, generated_id,
                       401, Authenticate(token).detail, None)
             /\ UNCHANGED generated_audio
        ELSE LET found == FindGenerated(generated_id, current_user(token))
                 g == CHOOSE x \in found : TRUE
             IN  IF found = {}
                 THEN /\ Answer("POST /generated-audio/{generated_id}/cancel", token,
                                generated_id, 404, "Generated audio not found", None)
                      /\ UNCHANGED generated_audio
                 ELSE IF ~Cancellable(g.generation_status)
                 THEN /\ Answer("POST /generated-audio/{generated_id}/cancel", token,
                                generated_id, 400,
                                "Can only cancel pending or processing generations", None)
                      /\ UNCHANGED generated_audio
                 ELSE /\ Replace(g, [g EXCEPT !.generation_status = "cancelled"])
                      /\ Answer("POST /generated-audio/{generated_id}/cancel", token,
                                generated_id, 200, "Generation cancelled successfully", None)
    /\ UNCHANGED <<engine, config, users, revoked_tokens, issued, now, logged_out,
                   tracks, samples, disk>>

NextGenerated ==
    \/ TestUser
    \/ Login
    \/ RequestGeneration
    \/ GenerationService
    \/ UpdateGeneratedAudio
    \/ DeleteGeneratedAudio
    \/ StreamGeneratedAudio
    \/ RetryGeneration
    \/ CancelGeneration

SpecGenerated == InitAuth /\ [][NextGenerated]_vars

-----------------------------------------------------------------------------
(* Properties: the status of a generation                                   *)

\* The step is a request of the API that was answered.
Requested == response' # response

\* C24: a request of the API changes the status of a generation only in two
\* ways: a cancel answered 200 takes it from pending or processing to
\* cancelled, a retry answered 200 takes it from failed or cancelled to
\* pending with the error cleared. A cancel or retry of the user's record in
\* any other status is answered 400 and changes nothing, and a stream is
\* answered 200 only for a record that is completed.
C24_StatusTransitions ==
    [][Requested =>
        /\ \A g \in generated_audio, h \in generated_audio' :
              (g.id = h.id /\ g.generation_status # h.generation_status) =>
                  /\ response'.id = g.id
                  /\ response'.status = 200
                  /\ \/ /\ response'.endpoint = "POST /generated-audio/{generated_id}/cancel"
                        /\ g.generation_status \in {"pending", "processing"}
                        /\ h.generation_status = "cancelled"
                     \/ /\ response'.endpoint = "POST /generated-audio/{generated_id}/retry"
                        /\ g.generation_status \in {"failed", "cancelled"}
                        /\ h.generation_status = "pending"
                        /\ h.generation_error = None
        /\ \A g \in generated_audio :
              (/\ ValidToken(response'.token)
               /\ g.id = response'.id
               /\ g.user_id = current_user(response'.token).id) =>
                  /\ (/\ response'.endpoint = "POST /generated-audio/{generated_id}/cancel"
                      /\ g.generation_status \notin {"pending", "processing"}) =>
                        (response'.status = 400 /\ generated_audio' = generated_audio)
                  /\ (/\ response'.endpoint = "POST /generated-audio/{generated_id}/cancel"
                      /\ g.generation_status \in {"pending", "processing"}) =>
                        (response'.status = 200
                         /\ [g EXCEPT !.generation_status = "cancelled"] \in generated_audio')
                  /\ (/\ response'.endpoint = "POST /generated-audio/{generated_id}/retry"
                      /\ g.generation_status \notin {"failed", "cancelled"}) =>
                        (response'.status = 400 /\ generated_audio' = generated_audio)
                  /\ (/\ response'.endpoint = "POST /generated-audio/{generated_id}/retry"
                      /\ g.generation_status \in {"failed", "cancelled"}) =>
                        (response'.status = 200
                         /\ [g EXCEPT !.generation_status = "pending",
                                      !.generation_error = None] \in generated_audio')
                  /\ (/\ response'.endpoint = "GET /generated-audio/{generated_id}/stream"
                      /\ response'.status = 200) => g.generation_status = "completed"]_vars

\* A failed generation was retried: it is pending again, without its error.
C24_Witness ==
    /\ response.endpoint = "POST /generated-audio/{generated_id}/retry"
    /\ response.status = 200
    /\ \E g \in generated_audio :
          /\ g.id = response.id
          /\ g.generation_status = "pending"
          /\ g.generation_error = None
    /\ \E g \in generated_audio : g.id # response.id /\ g.generation_status = "failed"

\* A retry of a processing generation was refused.
C24_WitnessRefused ==
    /\ response.endpoint = "POST /generated-audio/{generated_id}/retry"
    /\ response.status = 400
    /\ \E g \in generated_audio : g.id = response.id /\ g.generation_status = "processing"

-----------------------------------------------------------------------------
(* api/samples.py: the samples of a user                                    *)

\* How many samples are stored.
MaxSamples == 2

\* SAMPLE_UPLOAD_DIR / f"{uuid.uuid4()}{ext}": a name no file and no row has.
SampleFiles == {"/tmp/sample_uploads/" \o ToString(i) \o ".wav" : i \in 1..MaxSamples}

\* What was measured of the uploads: a bright and loud sample, and a dark and
\* quiet one.
SampleFeatures ==
    {[spectral_centroid |-> Num(800), energy |-> Num(200)],
     [spectral_centroid |-> Num(200), energy |-> Num(5)]}

\* analysis.get("tags"): the tags _classify_sample gives the features.
AnalysisTags(f) == ExtractTags(f, DetermineCategory(f).value).value

\* The name parameter is a required str: the empty string is one.
SampleNames == {"", "kick"}

\* SampleOut.name is Field(..., min_length=1, max_length=255).
SampleOutValid(sample) == Len(sample.name) >= 1 /\ Len(sample.name) <= 255

\* POST /samples/upload, lines 30-123. The analysis raises ValueError for a
\* file it cannot load, and the commit can fail in the database; everything
\* from the saving of the file on is inside the try, the building of the
\* response included.
UploadSample ==
    /\ \E token \in Headers, content_type \in {"audio/wav", "text/plain"},
          category \in {"ambient", "drone"}, name \in SampleNames,
          file_path \in SampleFiles,
          outcome \in {"analysis raises", "commit raises", "ok"},
          f \in SampleFeatures :
        /\ file_path \notin disk
        /\ \A s \in samples : s.file_path # file_path
        /\ IF Authenticate(token).status = 401
           THEN /\ Answer("POST /samples/upload", token, 0, 401,
                          Authenticate(token).detail, None)
                /\ UNCHANGED <<samples, disk>>
           ELSE IF content_type # "audio/wav"
           THEN /\ Answer("POST /samples/upload", token, 0, 400,
                          "Unsupported audio file format", None)
                /\ UNCHANGED <<samples, disk>>
           ELSE IF category # "ambient"
           THEN /\ Answer("POST /samples/upload", token, 0, 400, "Invalid category", None)
                /\ UNCHANGED <<samples, disk>>
           ELSE IF outcome # "ok"
           THEN \* the file was saved; except Exception removes it
                /\ Answer("POST /samples/upload", token, 0, 500,
                          "Failed to upload sample", None)
                /\ UNCHANGED <<samples, disk>>
           ELSE LET sample == [id |-> Cardinality(samples) + 1,
                               user_id |-> current_user(token).id,
                               name |-> name,
                               file_path |-> file_path,
                               tags |-> AnalysisTags(f)]
                IN  /\ samples' = samples \cup {sample}
                    /\ IF SampleOutValid(sample)
                       THEN /\ disk' = disk \cup {file_path}
                            /\ Answer("POST /samples/upload", token, sample.id, 200,
                                      "Sample uploaded and analyzed successfully", sample)
                       ELSE \* ValidationError after the commit: the file is removed
                            /\ disk' = disk
                            /\ Answer("POST /samples/upload", token, 0, 500,
                                      "Failed to upload sample", None)
    /\ Cardinality(samples) < MaxSamples
    /\ UNCHANGED <<engine, config, users, revoked_tokens, issued, now, logged_out,
                   tracks, generated_audio>>

\* The tags parameter after split(",") and strip(); no part of it holds a
\* space, so strip() changes none. The empty sequence is the parameter left out.
TagLists == {<<>>, <<"bright">>, <<"bright", "dark">>, <<"quiet", "dark">>}

\* Sample.tags.contains([tag])
Contains(tags, tag) == \E i \in 1..Len(tags) : tags[i] = tag

\* lines 158-162: one filter() per tag, each narrowing the query of the last
RECURSIVE FilterTags(_, _)
FilterTags(query, tag_list) ==
    IF tag_list = <<>> THEN query
    ELSE FilterTags({s \in query : Contains(s.tags, Head(tag_list))}, Tail(tag_list))

\* GET /samples, with the tags parameter; the page holds every sample.
GetSamples ==
    /\ \E token \in Headers, tag_list \in TagLists :
        IF Authenticate(token).status = 401
        THEN Answer("GET /samples", token, 0, 401, Authenticate(token).detail, None)
        ELSE LET query == {s \in samples : s.user_id = current_user(token).id}
             IN  Answer("GET /samples", token, 0, 200, "",
                        [tags |-> tag_list,
                         samples |-> {s.id : s \in FilterTags(query, tag_list)}])
    /\ UNCHANGED <<engine, config, users, revoked_tokens, issued, now, logged_out, tables>>

NextSamples ==
    \/ TestUser
    \/ Login
    \/ UploadSample
    \/ GetSamples

SpecSamples == InitAuth /\ [][NextSamples]_vars

-----------------------------------------------------------------------------
(* Properties: the samples of a user                                        *)

\* C25: get_samples with a tags parameter returns the user's samples that
\* contain any of the tags given.
C25_AsClaimed ==
    (/\ response.endpoint = "GET /samples"
     /\ response.status = 200
     /\ response.row.tags # <<>>) =>
        response.row.samples =
            {s.id : s \in {x \in samples :
                /\ x.user_id = current_user(response.token).id
                /\ \E i \in 1..Len(response.row.tags) :
                      Contains(x.tags, response.row.tags[i])}}

\* C26: when upload_sample has answered, either it answered 200 and the new
\* row's file is on disk, or it failed and neither a row nor a file was added.
C26_AsClaimed ==
    [][(Requested /\ response'.endpoint = "POST /samples/upload") =>
          \/ /\ response'.status = 200
             /\ \E s \in samples' \ samples : s.file_path \in disk'
          \/ /\ response'.status # 200
             /\ samples' = samples
             /\ disk' = disk]_vars

====
